---- MODULE Spec2Model ----
(***************************************************************************)
(* State-machine model of the Gbot session and streaming-delivery code:    *)
(*   src/main.py    polling bot: named chats, streaming replies            *)
(*   src/api/bot.py webhook bot: one history per user, non-streamed reply  *)
(*                                                                         *)
(* The key-value store is the variable db.  Every handler is a task that   *)
(* advances one awaited call at a time (a store call, an outbound call, a  *)
(* model call, the next fragment of a stream), so that tasks interleave    *)
(* exactly at the code's suspension points.  Key expiry (the ex= of r_set, *)
(* r_expire) lies outside the time span of a run and is not modelled.      *)
(***************************************************************************)
EXTENDS Naturals, Sequences, FiniteSets, TLC

VARIABLES
    db,        \* the store: key -> None | Some(value)
    redis,     \* "up": client present and calls succeed; "down": calls raise;
               \* "absent": redis_client is None
    task,      \* task[p]: position and local variables of the handler run by p
    budget,    \* inbound updates still to be dispatched
    appended   \* history-only: every turn update_history has written, per key

vars == <<db, redis, task, budget, appended>>

(***************************************************************************)
(* Texts.  A Python str is kept run-length encoded: a sequence of runs     *)
(* [c, n] (character c repeated n > 0 times), adjacent runs having         *)
(* different characters, so that equal strings are equal values and a      *)
(* text of several thousand characters stays small.                        *)
(***************************************************************************)
Run(c, n) == [c |-> c, n |-> n]

\* the whitespace characters str.strip() removes
Whitespace == {" ", "\n"}

RECURSIVE TLen(_)
\* len(text)
TLen(t) == IF t = <<>> THEN 0 ELSE Head(t).n + TLen(Tail(t))

\* a + b
TCat(a, b) ==
    IF a = <<>> THEN b
    ELSE IF b = <<>> THEN a
    ELSE IF a[Len(a)].c = b[1].c
         THEN SubSeq(a, 1, Len(a) - 1)
              \o <<Run(b[1].c, a[Len(a)].n + b[1].n)>>
              \o Tail(b)
         ELSE a \o b

RECURSIVE Str(_)
\* the text whose characters are the elements of the sequence cs
Str(cs) == IF cs = <<>> THEN <<>> ELSE TCat(<<Run(Head(cs), 1)>>, Str(Tail(cs)))

RECURSIVE TTake(_, _)
\* text[:k]
TTake(t, k) ==
    IF k = 0 \/ t = <<>> THEN <<>>
    ELSE IF Head(t).n <= k
         THEN <<Head(t)>> \o TTake(Tail(t), k - Head(t).n)
         ELSE <<Run(Head(t).c, k)>>

RECURSIVE TDrop(_, _)
\* text[k:]
TDrop(t, k) ==
    IF t = <<>> THEN <<>>
    ELSE IF k = 0 THEN t
    ELSE IF Head(t).n <= k
         THEN TDrop(Tail(t), k - Head(t).n)
         ELSE <<Run(Head(t).c, Head(t).n - k)>> \o Tail(t)

\* text[i:j] for 0 <= i <= j
TSlice(t, i, j) == TTake(TDrop(t, i), j - i)

RECURSIVE LStrip(_)
LStrip(t) ==
    IF t # <<>> /\ Head(t).c \in Whitespace THEN LStrip(Tail(t)) ELSE t

RECURSIVE RStrip(_)
RStrip(t) ==
    IF t # <<>> /\ t[Len(t)].c \in Whitespace
    THEN RStrip(SubSeq(t, 1, Len(t) - 1))
    ELSE t

\* text.strip()
TStrip(t) == RStrip(LStrip(t))

(***************************************************************************)
(* Program constants.                                                      *)
(***************************************************************************)
TELEGRAM_MAX_MESSAGE_LENGTH == 4096
HISTORY_LIMIT == 10
DEFAULT_CHAT_NAME == "default"
IMAGE_GEN_MODELS == {"gemini-2.5-flash-image-preview"}
FALLBACK_MODEL == "gemini-1.5-flash"
\* update_interval = 0.8 s, in tenths of a second
UPDATE_INTERVAL == 8
\* the live edit is skipped from TELEGRAM_MAX_MESSAGE_LENGTH - 10 characters on
EDIT_MARGIN == 10
\* " ✍️" appended to every live edit: a space, U+270D and U+FE0F
TYPING_MARKER == Str(<<" ", "[U+270D]", "[U+FE0F]">>)
\* the model text stored for an image request, "[Запрос на генерацию
\* изображения]": 33 characters, kept as one run of a symbol for the literal
IMAGE_REQUEST_TEXT == <<Run("[image-request]", 33)>>

\* ALLOWED_USER_IDS: users 1 and 2 are on the allow-list, user 3 is not
ALLOWED_USER_IDS == {1, 2}
Users == {1, 2, 3}

(***************************************************************************)
(* The store.  A value is None or Some(v); a key is a tuple standing for   *)
(* the formatted key string (f"history:{user_id}:{active_chat}" is         *)
(* <<"history", user_id, active_chat>>).                                   *)
(***************************************************************************)
None == [some |-> FALSE]
Some(v) == [some |-> TRUE, val |-> v]

K_active(u) == <<"active_chat", u>>
K_history_shared(u, c) == <<"history", 1, c>>

K_history(u, c) == <<"history", u, c>>
K_chats(u) == <<"chats", u>>
K_model(u) == <<"user", u, "model">>
K_persona(u) == <<"persona", u>>
K_daily(u) == <<"usage", u, "daily">>
K_monthly(u) == <<"usage", u, "monthly">>
\* the webhook bot's key, f"history:{user_id}"
K_wh_history(u) == <<"history", u>>

\* chat names a run can produce from its command arguments
ChatNames == {DEFAULT_CHAT_NAME, "a", "b_c"}

Keys ==
    {K_active(u) : u \in Users} \cup {K_chats(u) : u \in Users}
    \cup {K_history(u, c) : u \in Users, c \in ChatNames}
    \cup {K_model(u) : u \in Users} \cup {K_persona(u) : u \in Users}
    \cup {K_daily(u) : u \in Users} \cup {K_monthly(u) : u \in Users}
    \cup {K_wh_history(u) : u \in Users}

\* r_get(key, default): the value, or default when the key is absent, the
\* call raises or there is no client
r_get_unguarded(key, default) ==
    IF db[key].some THEN db[key] ELSE default

r_get(key, default) ==
    IF redis = "up" /\ db[key].some THEN db[key] ELSE default

\* r_set(key, value, ex): the store after the call
r_set(key, value) ==
    IF redis = "up" THEN [db EXCEPT ![key] = Some(value)] ELSE db

\* r_delete(key)
r_delete_user_keys(key) ==
    IF redis = "up"
    THEN [k \in Keys |-> IF k[2] = key[2] THEN None ELSE db[k]]
    ELSE db

r_delete(key) ==
    IF redis = "up" THEN [db EXCEPT ![key] = None] ELSE db

\* r_smembers(key): set(res or [])
r_smembers(key) ==
    IF redis = "up" /\ db[key].some THEN db[key].val ELSE {}

\* r_sadd(key, value)
r_sadd(key, value) ==
    IF redis = "up"
    THEN [db EXCEPT ![key] = Some(r_smembers(key) \cup {value})]
    ELSE db

\* redis_client.srem(key, value) inside try/except: pass; a set that loses
\* its last member is an absent key
srem(key, value) ==
    IF redis = "up"
    THEN [db EXCEPT ![key] = IF r_smembers(key) \ {value} = {}
                             THEN None
                             ELSE Some(r_smembers(key) \ {value})]
    ELSE db

\* r_incrby(key, amount): an absent key counts from 0
r_incrby_overwrite(key, amount) ==
    IF redis = "up" THEN [db EXCEPT ![key] = Some(amount)] ELSE db

r_incrby(key, amount) ==
    IF redis = "up"
    THEN [db EXCEPT ![key] = Some((IF db[key].some THEN db[key].val ELSE 0)
                                  + amount)]
    ELSE db

(***************************************************************************)
(* History blobs.                                                          *)
(***************************************************************************)
\* {'role': role, 'parts': [{'text': text}]}
Turn(role, text) == [role |-> role, text |-> text]

\* json.dumps(history): a well-formed JSON text that parses back to history
json_dumps(h) == [json |-> TRUE, data |-> h]

\* json.loads(history_data) if history_data else [], [] when loads raises
json_loads_or_empty(blob) ==
    IF blob.some /\ blob.val.json THEN blob.val.data ELSE <<>>

\* history[-HISTORY_LIMIT:] when len(history) > HISTORY_LIMIT
TruncateKeepOldest(h) ==
    IF Len(h) > HISTORY_LIMIT THEN SubSeq(h, 1, HISTORY_LIMIT) ELSE h

TruncateOdd(h) ==
    IF Len(h) > HISTORY_LIMIT
    THEN SubSeq(h, Len(h) - (HISTORY_LIMIT - 1) + 1, Len(h))
    ELSE h

TruncateEarly(h) ==
    IF Len(h) >= HISTORY_LIMIT
    THEN SubSeq(h, Len(h) - (HISTORY_LIMIT - 2) + 1, Len(h))
    ELSE h

Truncate(h) ==
    IF Len(h) > HISTORY_LIMIT
    THEN SubSeq(h, Len(h) - HISTORY_LIMIT + 1, Len(h))
    ELSE h

\* history.append(user turn); history.append(model turn)
AppendPairSwapped(h, user_text, model_text) ==
    h \o <<Turn("model", model_text), Turn("user", user_text)>>

AppendPair(h, user_text, model_text) ==
    h \o <<Turn("user", user_text), Turn("model", model_text)>>

\* get_active_chat_name(user_id)
get_active_chat_name_default(u) == DEFAULT_CHAT_NAME

get_active_chat_name(u) == r_get(K_active(u), Some(DEFAULT_CHAT_NAME)).val

\* get_history(user_id), its two reads taken in one state
get_history(u) ==
    json_loads_or_empty(r_get(K_history(u, get_active_chat_name(u)), None))

\* get_user_model(user_id)
get_user_model(u) == r_get(K_model(u), Some(FALLBACK_MODEL)).val

(***************************************************************************)
(* Tasks.  task[p] is the handler p runs: pc is the awaited call it is at, *)
(* the other fields are the handler's local variables, plus a record of    *)
(* what the task has done: calls (store and model calls, in order), out    *)
(* (outbound calls, in order), pre (the store when the update was          *)
(* dispatched), consumed (the fragments taken from the stream), raised     *)
(* ("call" when the model call raised, "stream" when the stream did), now  *)
(* (tenths of a second since the placeholder was sent) and edit_at (the    *)
(* values of now at the live edits that succeeded).                        *)
(***************************************************************************)
Procs == {1, 2}

NoResponse == [kind |-> "none", text |-> <<>>, image |-> FALSE, tokens |-> 0]

Fresh(u, op, via) ==
    [pc |-> "idle", op |-> op, via |-> via, user |-> u,
     chat_name |-> "", msg |-> <<>>, model_name |-> "",
     active |-> "", gh_active |-> "", hist |-> <<>>, all_chats |-> {},
     blob |-> None,
     stream |-> <<>>, stream_usage |-> None, buf |-> <<>>, since |-> 0,
     now |-> 0, edit_at |-> <<>>, placeholder |-> FALSE,
     uh_user |-> <<>>, uh_model |-> <<>>,
     slm_text |-> <<>>, slm_i |-> 0, slm_ret |-> "", slm_exc |-> "",
     response |-> NoResponse, image_sent |-> FALSE, reported |-> <<>>,
     calls |-> <<>>, out |-> <<>>, pre |-> db, consumed |-> <<>>,
     raised |-> "", outcome |-> ""]

\* one outbound call: what it is, its text, and how it ended
Msg(kind, text, res) == [kind |-> kind, text |-> text, res |-> res]

Res(ok) == IF ok THEN "ok" ELSE "error"

\* how a reply sent with parse_mode=HTML can end
HtmlResults == {"ok", "bad_markup", "error"}

Did(t, call) == Append(t.calls, call)
Sent(t, kind, text, res) == Append(t.out, Msg(kind, text, res))

\* user_id not in ALLOWED_USER_IDS
AllowedAnyone(u) == TRUE

Allowed(u) == u \in ALLOWED_USER_IDS

\* restricted(func): an update of user rec.user reaches func (the task is
\* at rec.pc) only when the user is allowed; otherwise the refusal is
\* sent, as a reply to a message or as an alert to a button press
Admit(p, rec) ==
    /\ task[p].pc \in {"idle", "done"}
    /\ budget > 0
    /\ budget' = budget - 1
    /\ task' = [task EXCEPT ![p] =
            IF Allowed(rec.user)
            THEN rec
            ELSE [rec EXCEPT
                    !.pc = "done",
                    !.outcome = "refused",
                    !.out = <<Msg(IF rec.via = "message" THEN "refusal"
                                  ELSE "alert", <<>>, "ok")>>]]
    /\ UNCHANGED <<db, redis, appended>>

\* the task steps from pc `at` to the local state `new`, the store unchanged
Step(p, at, new) ==
    /\ task[p].pc = at
    /\ task' = [task EXCEPT ![p] = new]
    /\ UNCHANGED <<db, redis, budget, appended>>

(***************************************************************************)
(* handle_message (main.py): a text message.                               *)
(***************************************************************************)
StartMessage(p, users, msgs) ==
    \E u \in users, m \in msgs :
        Admit(p, [Fresh(u, "message", "message") EXCEPT
                    !.pc = "hm_model", !.msg = m])

\* model_name = await get_user_model(user_id)
HM_GetModel(p) ==
    LET t == task[p] IN
    Step(p, "hm_model",
         [t EXCEPT !.pc = "hm_persona",
                   !.model_name = get_user_model(t.user),
                   !.calls = Did(t, "get:model")])

\* persona = await get_user_persona(user_id)
HM_GetPersona(p) ==
    LET t == task[p] IN
    Step(p, "hm_persona",
         [t EXCEPT !.pc = "hm_typing", !.calls = Did(t, "get:persona")])

\* await context.bot.send_chat_action(...), outside the try: a failure
\* leaves the handler; then the branch on the model name
HM_Typing(p) ==
    LET t == task[p] IN
    \E ok \in BOOLEAN :
        Step(p, "hm_typing",
             [t EXCEPT !.out = Sent(t, "typing", <<>>, Res(ok)),
                       !.outcome = IF ok THEN "" ELSE "crashed",
                       !.pc = IF ~ok THEN "done"
                              ELSE IF t.model_name \in IMAGE_GEN_MODELS
                                   THEN "img_call"
                                   ELSE "hm_hist_active"])

\* history = await get_history(user_id): the read of the active chat name
HM_HistActive(p) ==
    LET t == task[p] IN
    Step(p, "hm_hist_active",
         [t EXCEPT !.pc = "hm_hist_read",
                   !.gh_active = get_active_chat_name(t.user),
                   !.calls = Did(t, "get:active_chat")])

\* ... and the read of that chat's blob
HM_HistReadLate(p) ==
    LET t == task[p] IN
    Step(p, "hm_hist_read", [t EXCEPT !.pc = "hm_send"])

HM_HistRead(p) ==
    LET t == task[p] IN
    Step(p, "hm_hist_read",
         [t EXCEPT !.pc = "hm_send",
                   !.hist = json_loads_or_empty(
                                r_get(K_history(t.user, t.gh_active), None)),
                   !.calls = Did(t, "get:history")])

\* response_stream = await chat.send_message_async(user_message, stream=True):
\* the call raises, or returns a stream
HM_SendRaises(p) ==
    LET t == task[p] IN
    Step(p, "hm_send",
         [t EXCEPT !.pc = "hm_except", !.raised = "call",
                   !.calls = Did(t, "model:stream")])

HM_Send(p, streams, usages) ==
    LET t == task[p] IN
    \E s \in streams, usage \in usages :
        Step(p, "hm_send",
             [t EXCEPT !.pc = "st_placeholder", !.stream = s,
                       !.stream_usage = usage,
                       !.calls = Did(t, "model:stream")])

\* except Exception as e: await update.message.reply_text(...)
HM_Except(p) ==
    LET t == task[p] IN
    \E ok \in BOOLEAN :
        Step(p, "hm_except",
             [t EXCEPT !.pc = "done",
                       !.outcome = IF ok THEN "error_notice" ELSE "crashed",
                       !.out = Sent(t, "error", <<>>, Res(ok))])

(***************************************************************************)
(* handle_gemini_response_stream (main.py).                                *)
(***************************************************************************)
TextItem(f) == [kind |-> "text", text |-> f]
ErrorItem == [kind |-> "error", text |-> <<>>]

\* placeholder_message = await update.message.reply_text("...")
ST_PlaceholderOptional(p) ==
    LET t == task[p] IN
    \E ok \in BOOLEAN :
        Step(p, "st_placeholder",
             [t EXCEPT !.pc = "st_loop", !.placeholder = ok,
                       !.since = 0, !.now = 0,
                       !.out = Sent(t, "placeholder", <<>>, Res(ok))])

ST_Placeholder(p) ==
    LET t == task[p] IN
    \E ok \in BOOLEAN :
        Step(p, "st_placeholder",
             [t EXCEPT !.pc = IF ok THEN "st_loop" ELSE "st_except",
                       !.placeholder = ok,
                       !.since = 0, !.now = 0,
                       !.out = Sent(t, "placeholder", <<>>, Res(ok))])

\* full_response_text += chunk.text
AccumulateLast(buf, f) == f

Accumulate(buf, f) == TCat(buf, f)

\* the pc after the stream raised
OnStreamErrorFinish == "st_finish"

OnStreamError == "st_except"

\* current_time - last_update_time > update_interval
EditDueAlways(since) == TRUE

EditDue(since) == since > UPDATE_INTERVAL

\* hasattr(chunk, 'text') and chunk.text
HasTextAlways(f) == TRUE

HasText(f) == f # <<>>

\* len(full_response_text) < TELEGRAM_MAX_MESSAGE_LENGTH - 10
EditFitsAlways(buf) == TRUE

EditFits(buf) == TLen(buf) < TELEGRAM_MAX_MESSAGE_LENGTH - EDIT_MARGIN

\* one pass of `async for chunk in response_stream` for a chunk with text
\* f, dt tenths of a second after the previous pass: the buffer grows, and
\* when more than update_interval has passed since the last edit and the
\* buffer is short enough, the placeholder is edited (a failed edit is
\* swallowed and leaves last_update_time as it was)
ST_Chunk(p, delays) ==
    LET t == task[p] IN
    /\ t.pc = "st_loop"
    /\ t.stream # <<>>
    /\ Head(t.stream).kind = "text"
    /\ \E dt \in delays, ok \in BOOLEAN :
        LET f == Head(t.stream).text
            buf == IF HasText(f) THEN Accumulate(t.buf, f) ELSE t.buf
            since == t.since + dt
            edit == /\ HasText(f)
                    /\ EditDue(since)
                    /\ EditFits(buf)
        IN  /\ (~edit => ok)
            /\ Step(p, "st_loop",
                    [t EXCEPT
                        !.stream = Tail(t.stream),
                        !.consumed = Append(t.consumed, f),
                        !.buf = buf,
                        !.since = IF edit /\ ok THEN 0 ELSE since,
                        !.now = t.now + dt,
                        !.edit_at = IF edit /\ ok
                                    THEN Append(t.edit_at, t.now + dt)
                                    ELSE t.edit_at,
                        !.out = IF edit
                                THEN Sent(t, "edit",
                                          TCat(buf, TYPING_MARKER), Res(ok))
                                ELSE t.out])

\* the stream raises instead of yielding its next chunk
ST_ChunkRaises(p) ==
    LET t == task[p] IN
    /\ t.stream # <<>>
    /\ Head(t.stream).kind = "error"
    /\ Step(p, "st_loop",
            [t EXCEPT !.pc = OnStreamError, !.stream = <<>>,
                      !.raised = "stream"])

\* the stream is exhausted: go on to the placeholder's deletion
ST_Exhausted(p) ==
    LET t == task[p] IN
    /\ t.stream = <<>>
    /\ Step(p, "st_loop", [t EXCEPT !.pc = "st_finish"])

\* `not full_response_text.strip()`
IsBlankNoStrip(text) == text = <<>>

IsBlank(text) == TStrip(text) = <<>>

\* await placeholder_message.delete() (whether it fails changes nothing:
\* the failure is swallowed), then the test for an empty reply
ST_Finish(p) ==
    LET t == task[p] IN
    Step(p, "st_finish",
         [t EXCEPT
            !.out = IF t.placeholder
                    THEN Sent(t, "delete_placeholder", <<>>, "any")
                    ELSE t.out,
            !.pc = IF IsBlank(t.buf) THEN "st_nocontent" ELSE "slm",
            !.slm_text = t.buf, !.slm_i = 0,
            !.slm_ret = "uh_active", !.slm_exc = "st_except",
            !.uh_user = t.msg, !.uh_model = t.buf])

\* the "no content" notice; return
ST_NoContent(p) ==
    LET t == task[p] IN
    \E ok \in BOOLEAN :
        Step(p, "st_nocontent",
             [t EXCEPT !.pc = IF ok THEN "done" ELSE "st_except",
                       !.outcome = IF ok THEN "no_content" ELSE "",
                       !.out = Sent(t, "no_content", <<>>, Res(ok))])

\* except Exception as e: delete the placeholder if there is one (a
\* failure is swallowed), reply with the error; a failure of that reply
\* reaches handle_message's except
ST_Except(p) ==
    LET t == task[p] IN
    \E ok \in BOOLEAN :
        Step(p, "st_except",
             [t EXCEPT
                !.out = (IF t.placeholder
                         THEN Sent(t, "delete_placeholder", <<>>, "any")
                         ELSE t.out)
                        \o <<Msg("error", <<>>, Res(ok))>>,
                !.pc = IF ok THEN "done" ELSE "hm_except",
                !.outcome = IF ok THEN "failed" ELSE ""])

(***************************************************************************)
(* send_long_message (main.py): one reply_text per pass of the loop.       *)
(***************************************************************************)
\* text[i:i + TELEGRAM_MAX_MESSAGE_LENGTH]
ChunkShort(text, i) == TSlice(text, i, i + TELEGRAM_MAX_MESSAGE_LENGTH - 1)

Chunk(text, i) == TSlice(text, i, i + TELEGRAM_MAX_MESSAGE_LENGTH)

SLM_SendSwallow(p) ==
    LET t == task[p] IN
    \E res \in HtmlResults :
        Step(p, "slm",
             [t EXCEPT
                !.out = Sent(t, "final", Chunk(t.slm_text, t.slm_i), res),
                !.slm_i = t.slm_i + TELEGRAM_MAX_MESSAGE_LENGTH,
                !.pc = IF t.slm_i + TELEGRAM_MAX_MESSAGE_LENGTH
                          < TLen(t.slm_text)
                       THEN "slm"
                       ELSE t.slm_ret])

SLM_Send(p) ==
    LET t == task[p] IN
    IF t.slm_i = 0 /\ (t.slm_text = <<>> \/ TStrip(t.slm_text) = <<>>)
    THEN Step(p, "slm", [t EXCEPT !.pc = t.slm_ret])
    ELSE \E res \in HtmlResults :
            Step(p, "slm",
                 [t EXCEPT
                    !.out = Sent(t, "final", Chunk(t.slm_text, t.slm_i), res),
                    !.slm_i = t.slm_i + TELEGRAM_MAX_MESSAGE_LENGTH,
                    !.pc = IF res # "ok" THEN t.slm_exc
                           ELSE IF t.slm_i + TELEGRAM_MAX_MESSAGE_LENGTH
                                   < TLen(t.slm_text)
                                THEN "slm"
                                ELSE t.slm_ret])

(***************************************************************************)
(* update_history (main.py).                                               *)
(***************************************************************************)
\* active_chat = await get_active_chat_name(user_id)
UH_Active(p) ==
    LET t == task[p] IN
    Step(p, "uh_active",
         [t EXCEPT !.pc = "uh_hist_active",
                   !.active = get_active_chat_name(t.user),
                   !.calls = Did(t, "get:active_chat")])

\* history = await get_history(user_id): the active chat name, read again
UH_HistActive(p) ==
    LET t == task[p] IN
    Step(p, "uh_hist_active",
         [t EXCEPT !.pc = "uh_hist_read",
                   !.gh_active = get_active_chat_name(t.user),
                   !.calls = Did(t, "get:active_chat")])

\* ... and the blob of that chat
UH_HistRead(p) ==
    LET t == task[p] IN
    Step(p, "uh_hist_read",
         [t EXCEPT !.pc = "uh_set",
                   !.hist = json_loads_or_empty(
                                r_get(K_history(t.user, t.gh_active), None)),
                   !.calls = Did(t, "get:history")])

\* the two appends, the truncation and the r_set
UH_SetAtomic(p) ==
    LET t == task[p]
        key == K_history(t.user, t.active)
        pair == AppendPair(<<>>, t.uh_user, t.uh_model)
    IN  /\ t.pc = "uh_set"
        /\ db' = r_set(key, json_dumps(
                        Truncate(json_loads_or_empty(db[key]) \o pair)))
        /\ appended' = IF redis = "up"
                       THEN [appended EXCEPT ![key] = @ \o pair]
                       ELSE appended
        /\ task' = [task EXCEPT ![p] =
                [t EXCEPT !.pc = "done", !.outcome = "finalized",
                          !.calls = Did(t, "set:history")]]
        /\ UNCHANGED <<redis, budget>>

UH_Set(p) ==
    LET t == task[p]
        key == K_history(t.user, t.active)
        pair == AppendPair(<<>>, t.uh_user, t.uh_model)
    IN  /\ t.pc = "uh_set"
        /\ db' = r_set(key, json_dumps(
                        Truncate(AppendPair(t.hist, t.uh_user, t.uh_model))))
        /\ appended' = IF redis = "up"
                       THEN [appended EXCEPT ![key] = @ \o pair]
                       ELSE appended
        /\ task' = [task EXCEPT ![p] =
                [t EXCEPT !.pc = "done",
                          !.outcome = IF t.op = "message" /\
                                         t.model_name \notin IMAGE_GEN_MODELS
                                      THEN "finalized" ELSE "image_done",
                          !.calls = Did(t, "set:history")]]
        /\ UNCHANGED <<redis, budget>>

(***************************************************************************)
(* handle_message's image branch, handle_gemini_response and               *)
(* update_usage_stats (main.py).  A response is what the handler looks at: *)
(* kind "blocked" (no candidates), "finish_other" (a finish reason that is *)
(* not STOP) or "ok"; the text of its text parts; whether it has an image  *)
(* part; usage (the total_token_count, when usage_metadata has one).       *)
(***************************************************************************)
Response(kind, text, image, usage) ==
    [kind |-> kind, text |-> text, image |-> image, usage |-> usage]

\* response = await model.generate_content_async(image_prompt)
IMG_CallRaises(p) ==
    LET t == task[p] IN
    Step(p, "img_call",
         [t EXCEPT !.pc = "hm_except", !.raised = "call",
                   !.calls = Did(t, "model:generate")])

IMG_Call(p, responses) ==
    LET t == task[p] IN
    \E r \in responses :
        Step(p, "img_call",
             [t EXCEPT !.pc = "gr_usage", !.response = r,
                       !.uh_user = t.msg, !.uh_model = IMAGE_REQUEST_TEXT,
                       !.calls = Did(t, "model:generate")])

\* update_usage_stats: nothing without a client or a total_token_count;
\* else r_incrby and r_expire of the daily key ...
GR_UsageDailyAlways(p) ==
    LET t == task[p]
        tokens == IF t.response.usage.some THEN t.response.usage.val ELSE 0
    IN  /\ t.pc = "gr_usage"
        /\ db' = r_incrby(K_daily(t.user), tokens)
        /\ task' = [task EXCEPT ![p] =
                [t EXCEPT !.pc = "gr_inspect",
                          !.calls = Did(t, "incrby:daily")]]
        /\ UNCHANGED <<redis, budget, appended>>

GR_UsageDaily(p) ==
    LET t == task[p]
        record == redis # "absent" /\ t.response.usage.some
    IN  /\ t.pc = "gr_usage"
        /\ db' = IF record
                 THEN r_incrby(K_daily(t.user), t.response.usage.val)
                 ELSE db
        /\ task' = [task EXCEPT ![p] =
                [t EXCEPT !.pc = IF record THEN "gr_usage_monthly"
                                 ELSE "gr_inspect",
                          !.calls = IF record THEN Did(t, "incrby:daily")
                                    ELSE t.calls]]
        /\ UNCHANGED <<redis, budget, appended>>

\* ... and of the monthly key
GR_UsageMonthly(p) ==
    LET t == task[p] IN
    /\ t.pc = "gr_usage_monthly"
    /\ db' = r_incrby(K_monthly(t.user), t.response.usage.val)
    /\ task' = [task EXCEPT ![p] =
            [t EXCEPT !.pc = "gr_inspect",
                      !.calls = Did(t, "incrby:monthly")]]
    /\ UNCHANGED <<redis, budget, appended>>

\* no candidates: the "blocked" notice; return
GR_Blocked(p) ==
    LET t == task[p] IN
    /\ t.response.kind = "blocked"
    /\ \E ok \in BOOLEAN :
        Step(p, "gr_inspect",
             [t EXCEPT !.pc = IF ok THEN "uh_active" ELSE "gr_except",
                       !.out = Sent(t, "notice_blocked", <<>>, Res(ok))])

\* a finish reason other than STOP: the notice; return
GR_FinishOther(p) ==
    LET t == task[p] IN
    /\ t.response.kind = "finish_other"
    /\ \E res \in HtmlResults :
        Step(p, "gr_inspect",
             [t EXCEPT !.pc = IF res = "ok" THEN "uh_active" ELSE "gr_except",
                       !.out = Sent(t, "notice_finish", <<>>, res)])

\* the parts: an image part is sent as a photo (a failure is logged and
\* swallowed); the text is sent when it is not blank and no image was sent
GR_Parts(p) ==
    LET t == task[p] IN
    /\ t.response.kind = "ok"
    /\ \E okp \in BOOLEAN :
        /\ (~t.response.image => ~okp)
        /\ Step(p, "gr_inspect",
                [t EXCEPT
                    !.image_sent = okp,
                    !.out = IF t.response.image
                            THEN Sent(t, "photo", <<>>, Res(okp))
                            ELSE t.out,
                    !.pc = IF ~IsBlank(t.response.text) /\ ~okp
                           THEN "slm" ELSE "uh_active",
                    !.slm_text = t.response.text, !.slm_i = 0,
                    !.slm_ret = "uh_active", !.slm_exc = "gr_except"])

\* except Exception as e: reply with the error; handle_gemini_response
\* returns, unless that reply fails too
GR_Except(p) ==
    LET t == task[p] IN
    \E ok \in BOOLEAN :
        Step(p, "gr_except",
             [t EXCEPT !.pc = IF ok THEN "uh_active" ELSE "hm_except",
                       !.out = Sent(t, "error", <<>>, Res(ok))])

(***************************************************************************)
(* Commands and buttons (main.py).                                         *)
(***************************************************************************)
RECURSIVE JoinUnderscore(_)
\* "_".join(context.args)
JoinUnderscore(args) ==
    IF args = <<>> THEN ""
    ELSE IF Len(args) = 1 THEN args[1]
    ELSE args[1] \o "_" \o JoinUnderscore(Tail(args))

\* "_".join(context.args).strip().replace(" ", "_"): the arguments are the
\* whitespace-separated words of the command, so strip and replace find
\* nothing to change
SanitizedName(args) == JoinUnderscore(args)

\* the store after r_delete(key), with the key's record of appended turns
DeleteHistory(key) ==
    /\ db' = r_delete(key)
    /\ appended' = IF redis = "up" THEN [appended EXCEPT ![key] = <<>>]
                   ELSE appended

\* main_menu_command after a button: get_user_model, get_active_chat_name
Menu(p) ==
    LET t == task[p] IN
    Step(p, "menu",
         [t EXCEPT !.pc = "done",
                   !.calls = t.calls \o <<"get:model", "get:active_chat">>,
                   !.out = Sent(t, "menu", <<>>, "ok")])

AfterReply(t) == IF t.via = "callback" THEN "menu" ELSE "done"

\* /clear and the menu's clear button: clear_history_logic
StartClear(p, users, vias) ==
    \E u \in users, via \in vias :
        Admit(p, [Fresh(u, "clear", via) EXCEPT !.pc = "cl_active"])

\* active_chat = await get_active_chat_name(user_id)
CL_Active(p) ==
    LET t == task[p] IN
    Step(p, "cl_active",
         [t EXCEPT !.pc = "cl_delete",
                   !.active = get_active_chat_name(t.user),
                   !.calls = Did(t, "get:active_chat")])

\* the key clear_history_logic deletes
ClearKeyDefault(t) == K_history(t.user, DEFAULT_CHAT_NAME)

ClearKey(t) == K_history(t.user, t.active)

\* await r_delete(f"history:{user_id}:{active_chat}"), and the reply
CL_Delete(p) ==
    LET t == task[p] IN
    /\ t.pc = "cl_delete"
    /\ DeleteHistory(ClearKey(t))
    /\ task' = [task EXCEPT ![p] =
            [t EXCEPT !.pc = AfterReply(t), !.outcome = "cleared",
                      !.calls = Did(t, "delete:history"),
                      !.out = Sent(t, "info", <<>>, "ok")]]
    /\ UNCHANGED <<redis, budget>>

\* /new_chat and the chats menu's button
StartNewChat(p, users, vias) ==
    \E u \in users, via \in vias :
        Admit(p, [Fresh(u, "new_chat", via) EXCEPT !.pc = "nc_set"])

\* if not redis_client: return; r_set(active_chat, DEFAULT_CHAT_NAME)
NC_SetActive(p) ==
    LET t == task[p] IN
    /\ t.pc = "nc_set"
    /\ db' = r_set(K_active(t.user), DEFAULT_CHAT_NAME)
    /\ task' = [task EXCEPT ![p] =
            IF redis = "absent"
            THEN [t EXCEPT !.pc = "done", !.outcome = "no_store"]
            ELSE [t EXCEPT !.pc = "nc_delete",
                           !.calls = Did(t, "set:active_chat")]]
    /\ UNCHANGED <<redis, budget, appended>>

\* r_delete(history of the default chat), and the reply
NC_Delete(p) ==
    LET t == task[p] IN
    /\ t.pc = "nc_delete"
    /\ DeleteHistory(K_history(t.user, DEFAULT_CHAT_NAME))
    /\ task' = [task EXCEPT ![p] =
            [t EXCEPT !.pc = AfterReply(t), !.outcome = "new_chat",
                      !.calls = Did(t, "delete:history"),
                      !.out = Sent(t, "info", <<>>, "ok")]]
    /\ UNCHANGED <<redis, budget>>

\* /save_chat <name>
StartSaveChat(p, users, arglists) ==
    \E u \in users, args \in arglists :
        Admit(p, [Fresh(u, "save_chat", "message") EXCEPT
                    !.pc = "sc_active", !.chat_name = SanitizedName(args)])

\* the checks of the client and of the name, then
\* active_chat = await get_active_chat_name(user_id)
SC_Active(p) ==
    LET t == task[p] IN
    Step(p, "sc_active",
         IF redis = "absent"
         THEN [t EXCEPT !.pc = "done", !.outcome = "no_store"]
         ELSE IF t.chat_name = "" \/ t.chat_name = DEFAULT_CHAT_NAME
         THEN [t EXCEPT !.pc = "done", !.outcome = "rejected",
                        !.out = Sent(t, "usage", <<>>, "ok")]
         ELSE [t EXCEPT !.pc = "sc_read",
                        !.active = get_active_chat_name(t.user),
                        !.calls = Did(t, "get:active_chat")])

\* current_history_json = await r_get(history of the active chat);
\* nothing to save when it is empty
SC_ReadNoCheck(p) ==
    LET t == task[p]
        blob == r_get(K_history(t.user, t.active), Some(json_dumps(<<>>)))
    IN  Step(p, "sc_read",
             [t EXCEPT !.pc = "sc_copy", !.blob = blob,
                       !.calls = Did(t, "get:history")])

SC_Read(p) ==
    LET t == task[p]
        blob == r_get(K_history(t.user, t.active), None)
    IN  Step(p, "sc_read",
             IF ~blob.some
             THEN [t EXCEPT !.pc = "done", !.outcome = "rejected",
                            !.calls = Did(t, "get:history"),
                            !.out = Sent(t, "empty", <<>>, "ok")]
             ELSE [t EXCEPT !.pc = "sc_copy", !.blob = blob,
                            !.calls = Did(t, "get:history")])

\* await r_set(history of chat_name, current_history_json, ex=86400 * 7)
SC_Copy(p) ==
    LET t == task[p]
        key == K_history(t.user, t.chat_name)
    IN  /\ t.pc = "sc_copy"
        /\ db' = r_set(key, t.blob.val)
        /\ appended' = IF redis = "up"
                       THEN [appended EXCEPT
                                ![key] = json_loads_or_empty(t.blob)]
                       ELSE appended
        /\ task' = [task EXCEPT ![p] =
                [t EXCEPT !.pc = "sc_sadd",
                          !.calls = Did(t, "set:history")]]
        /\ UNCHANGED <<redis, budget>>

\* await r_sadd(f"chats:{user_id}", chat_name)
SC_SaddSkipped(p) ==
    LET t == task[p] IN
    Step(p, "sc_sadd", [t EXCEPT !.pc = "sc_set"])

SC_Sadd(p) ==
    LET t == task[p] IN
    /\ t.pc = "sc_sadd"
    /\ db' = r_sadd(K_chats(t.user), t.chat_name)
    /\ task' = [task EXCEPT ![p] =
            [t EXCEPT !.pc = "sc_set", !.calls = Did(t, "sadd:chats")]]
    /\ UNCHANGED <<redis, budget, appended>>

\* await r_set(f"active_chat:{user_id}", chat_name), and the reply
SC_SetActive(p) ==
    LET t == task[p] IN
    /\ t.pc = "sc_set"
    /\ db' = r_set(K_active(t.user), t.chat_name)
    /\ task' = [task EXCEPT ![p] =
            [t EXCEPT !.pc = "done", !.outcome = "saved",
                      !.calls = Did(t, "set:active_chat"),
                      !.out = Sent(t, "info", <<>>, "ok")]]
    /\ UNCHANGED <<redis, budget, appended>>

\* /load_chat <name>
StartLoadChat(p, users, arglists) ==
    \E u \in users, args \in arglists :
        Admit(p, [Fresh(u, "load_chat", "message") EXCEPT
                    !.pc = "lc_members", !.chat_name = SanitizedName(args)])

\* the checks of the client and of the name, all_chats = await
\* r_smembers(f"chats:{user_id}"), and the test that the chat is known
LC_MembersNoCheck(p) ==
    LET t == task[p] IN
    Step(p, "lc_members",
         [t EXCEPT !.pc = "lc_set",
                   !.all_chats = r_smembers(K_chats(t.user)),
                   !.calls = Did(t, "smembers:chats")])

LC_Members(p) ==
    LET t == task[p]
        all_chats == r_smembers(K_chats(t.user))
    IN  Step(p, "lc_members",
             IF redis = "absent"
             THEN [t EXCEPT !.pc = "done", !.outcome = "no_store"]
             ELSE IF t.chat_name = ""
             THEN [t EXCEPT !.pc = "done", !.outcome = "rejected",
                            !.out = Sent(t, "usage", <<>>, "ok")]
             ELSE IF t.chat_name # DEFAULT_CHAT_NAME
                     /\ t.chat_name \notin all_chats
             THEN [t EXCEPT !.pc = "done", !.outcome = "rejected",
                            !.all_chats = all_chats,
                            !.calls = Did(t, "smembers:chats"),
                            !.out = Sent(t, "not_found", <<>>, "ok")]
             ELSE [t EXCEPT !.pc = "lc_set", !.all_chats = all_chats,
                            !.calls = Did(t, "smembers:chats")])

\* await r_set(f"active_chat:{user_id}", chat_name), and the reply
LC_SetActive(p) ==
    LET t == task[p] IN
    /\ t.pc = "lc_set"
    /\ db' = r_set(K_active(t.user), t.chat_name)
    /\ task' = [task EXCEPT ![p] =
            [t EXCEPT !.pc = "done", !.outcome = "loaded",
                      !.calls = Did(t, "set:active_chat"),
                      !.out = Sent(t, "info", <<>>, "ok")]]
    /\ UNCHANGED <<redis, budget, appended>>

\* /delete_chat <name>
StartDeleteChat(p, users, arglists) ==
    \E u \in users, args \in arglists :
        Admit(p, [Fresh(u, "delete_chat", "message") EXCEPT
                    !.pc = "dc_members", !.chat_name = SanitizedName(args)])

\* the checks of the client and of the name, all_chats = await
\* r_smembers(f"chats:{user_id}"), and the test that the chat is known
DC_MembersNoCheck(p) ==
    LET t == task[p] IN
    Step(p, "dc_members",
         [t EXCEPT !.pc = "dc_delete",
                   !.all_chats = r_smembers(K_chats(t.user)),
                   !.calls = Did(t, "smembers:chats")])

DC_Members(p) ==
    LET t == task[p]
        all_chats == r_smembers(K_chats(t.user))
    IN  Step(p, "dc_members",
             IF redis = "absent"
             THEN [t EXCEPT !.pc = "done", !.outcome = "no_store"]
             ELSE IF t.chat_name = "" \/ t.chat_name = DEFAULT_CHAT_NAME
             THEN [t EXCEPT !.pc = "done", !.outcome = "rejected",
                            !.out = Sent(t, "usage", <<>>, "ok")]
             ELSE IF t.chat_name \notin all_chats
             THEN [t EXCEPT !.pc = "done", !.outcome = "rejected",
                            !.all_chats = all_chats,
                            !.calls = Did(t, "smembers:chats"),
                            !.out = Sent(t, "not_found", <<>>, "ok")]
             ELSE [t EXCEPT !.pc = "dc_delete", !.all_chats = all_chats,
                            !.calls = Did(t, "smembers:chats")])

\* await r_delete(f"history:{user_id}:{chat_name}")
DC_Delete(p) ==
    LET t == task[p] IN
    /\ t.pc = "dc_delete"
    /\ DeleteHistory(K_history(t.user, t.chat_name))
    /\ task' = [task EXCEPT ![p] =
            [t EXCEPT !.pc = "dc_srem", !.calls = Did(t, "delete:history")]]
    /\ UNCHANGED <<redis, budget>>

\* await redis_client.srem(f"chats:{user_id}", chat_name)
DC_Srem(p) ==
    LET t == task[p] IN
    /\ t.pc = "dc_srem"
    /\ db' = srem(K_chats(t.user), t.chat_name)
    /\ task' = [task EXCEPT ![p] =
            [t EXCEPT !.pc = "dc_active", !.calls = Did(t, "srem:chats")]]
    /\ UNCHANGED <<redis, budget, appended>>

\* active_chat = await get_active_chat_name(user_id); the deleted chat is
\* the active one or not
DC_ActiveNoReset(p) ==
    LET t == task[p] IN
    Step(p, "dc_active",
         [t EXCEPT !.pc = "done", !.outcome = "deleted",
                   !.active = get_active_chat_name(t.user),
                   !.calls = Did(t, "get:active_chat"),
                   !.out = Sent(t, "info", <<>>, "ok")])

DC_Active(p) ==
    LET t == task[p]
        active == get_active_chat_name(t.user)
    IN  Step(p, "dc_active",
             IF active = t.chat_name
             THEN [t EXCEPT !.pc = "dc_reset", !.active = active,
                            !.calls = Did(t, "get:active_chat")]
             ELSE [t EXCEPT !.pc = "done", !.outcome = "deleted",
                            !.active = active,
                            !.calls = Did(t, "get:active_chat"),
                            !.out = Sent(t, "info", <<>>, "ok")])

\* await r_set(f"active_chat:{user_id}", DEFAULT_CHAT_NAME), and the reply
DC_Reset(p) ==
    LET t == task[p] IN
    /\ t.pc = "dc_reset"
    /\ db' = r_set(K_active(t.user), DEFAULT_CHAT_NAME)
    /\ task' = [task EXCEPT ![p] =
            [t EXCEPT !.pc = "done", !.outcome = "deleted",
                      !.calls = Did(t, "set:active_chat"),
                      !.out = Sent(t, "info", <<>>, "ok")]]
    /\ UNCHANGED <<redis, budget, appended>>

\* /usage
StartUsage(p, users) ==
    \E u \in users :
        Admit(p, [Fresh(u, "usage", "message") EXCEPT !.pc = "us_daily"])

\* the check of the client, daily_tokens = await r_get(daily key, 0)
US_Daily(p) ==
    LET t == task[p] IN
    Step(p, "us_daily",
         IF redis = "absent"
         THEN [t EXCEPT !.pc = "done", !.outcome = "no_store",
                        !.out = Sent(t, "no_store", <<>>, "ok")]
         ELSE [t EXCEPT !.pc = "us_monthly",
                        !.reported = <<r_get(K_daily(t.user), Some(0)).val>>,
                        !.calls = Did(t, "get:daily")])

\* monthly_tokens = await r_get(monthly key, 0), and the reply with the
\* two numbers
US_Monthly(p) ==
    LET t == task[p] IN
    Step(p, "us_monthly",
         [t EXCEPT !.pc = "done", !.outcome = "reported",
                   !.reported = Append(t.reported,
                                       r_get(K_monthly(t.user), Some(0)).val),
                   !.calls = Did(t, "get:monthly"),
                   !.out = Sent(t, "usage_report", <<>>, "ok")])

\* the select_model button: r_set(f"user:{user_id}:model", payload) when
\* there is a client, then the menu
StartSelectModel(p, users, models) ==
    \E u \in users, m \in models :
        Admit(p, [Fresh(u, "select_model", "callback") EXCEPT
                    !.pc = "sm_set", !.model_name = m])

SM_Set(p) ==
    LET t == task[p] IN
    /\ t.pc = "sm_set"
    /\ db' = IF redis = "absent" THEN db
             ELSE r_set(K_model(t.user), t.model_name)
    /\ task' = [task EXCEPT ![p] =
            [t EXCEPT !.pc = "menu", !.outcome = "model_set",
                      !.calls = IF redis = "absent" THEN t.calls
                                ELSE Did(t, "set:model")]]
    /\ UNCHANGED <<redis, budget, appended>>

(***************************************************************************)
(* The webhook variant (api/bot.py): one history per user under            *)
(* history:{user_id}, kept through a chat session of the model library.    *)
(* Its store calls are not awaited; a task still takes them one at a time. *)
(***************************************************************************)
\* get_user_model(user_id)
wh_get_user_model(u) ==
    IF redis = "up" /\ db[K_model(u)].some
    THEN db[K_model(u)].val ELSE "gemini-1.5-flash"

\* get_history(user_id)
wh_get_history(u) ==
    IF redis = "up" /\ db[K_wh_history(u)].some /\ db[K_wh_history(u)].val.json
    THEN db[K_wh_history(u)].val.data ELSE <<>>

\* chat.history after chat.send_message_async(user_message) returned: the
\* history the session was started with, the message and the reply
chat_history(hist, user_message, response) ==
    hist \o <<Turn("user", user_message), Turn("model", response.text)>>

\* history_to_save: chat_history, its last HISTORY_LIMIT entries when it
\* has more
history_to_save(h) ==
    IF Len(h) > HISTORY_LIMIT
    THEN SubSeq(h, Len(h) - HISTORY_LIMIT + 1, Len(h))
    ELSE h

WH_StartMessage(p, users, msgs) ==
    \E u \in users, m \in msgs :
        Admit(p, [Fresh(u, "wh_message", "message") EXCEPT
                    !.pc = "wh_model", !.msg = m])

\* model_name = get_user_model(user_id)
WH_GetModel(p) ==
    LET t == task[p] IN
    Step(p, "wh_model",
         [t EXCEPT !.pc = "wh_typing",
                   !.model_name = wh_get_user_model(t.user),
                   !.calls = Did(t, "get:model")])

\* reply_chat_action(TYPING), outside the try
WH_Typing(p) ==
    LET t == task[p] IN
    \E ok \in BOOLEAN :
        Step(p, "wh_typing",
             [t EXCEPT !.pc = IF ok THEN "wh_hist" ELSE "done",
                       !.outcome = IF ok THEN "" ELSE "crashed",
                       !.out = Sent(t, "typing", <<>>, Res(ok))])

\* history = get_history(user_id)
WH_HistRead(p) ==
    LET t == task[p] IN
    Step(p, "wh_hist",
         [t EXCEPT !.pc = "wh_send",
                   !.hist = wh_get_history(t.user),
                   !.calls = Did(t, "get:history")])

\* chat.send_message_async(user_message) raises
WH_SendRaises(p) ==
    LET t == task[p] IN
    Step(p, "wh_send",
         [t EXCEPT !.pc = "wh_except", !.raised = "call",
                   !.calls = Did(t, "model:chat")])

\* response = await chat.send_message_async(user_message)
WH_Send(p, responses) ==
    LET t == task[p] IN
    \E r \in responses :
        Step(p, "wh_send",
             [t EXCEPT !.pc = "wh_update", !.response = r,
                       !.uh_user = t.msg, !.uh_model = r.text,
                       !.calls = Did(t, "model:chat")])

\* update_history(user_id, chat.history), before the response is looked at
WH_UpdateHistory(p) ==
    LET t == task[p]
        key == K_wh_history(t.user)
        h == chat_history(t.hist, t.msg, t.response)
    IN  /\ t.pc = "wh_update"
        /\ db' = IF redis = "up"
                 THEN [db EXCEPT ![key] = Some(json_dumps(history_to_save(h)))]
                 ELSE db
        /\ appended' = IF redis = "up"
                       THEN [appended EXCEPT ![key] =
                                @ \o chat_history(<<>>, t.msg, t.response)]
                       ELSE appended
        /\ task' = [task EXCEPT ![p] =
                [t EXCEPT !.pc = "wh_inspect",
                          !.calls = IF redis = "absent" THEN t.calls
                                    ELSE Did(t, "set:history")]]
        /\ UNCHANGED <<redis, budget>>

\* handle_gemini_response: no candidates
WH_Blocked(p) ==
    LET t == task[p] IN
    /\ t.response.kind = "blocked"
    /\ \E ok \in BOOLEAN :
        Step(p, "wh_inspect",
             [t EXCEPT !.pc = IF ok THEN "done" ELSE "wh_gr_except",
                       !.outcome = IF ok THEN "notice" ELSE "",
                       !.out = Sent(t, "notice_blocked", <<>>, Res(ok))])

\* a finish reason other than STOP; the notice is sent as Markdown
WH_FinishOther(p) ==
    LET t == task[p] IN
    /\ t.response.kind = "finish_other"
    /\ \E res \in HtmlResults :
        Step(p, "wh_inspect",
             [t EXCEPT !.pc = IF res = "ok" THEN "done" ELSE "wh_gr_except",
                       !.outcome = IF res = "ok" THEN "notice" ELSE "",
                       !.out = Sent(t, "notice_finish", <<>>, res)])

\* not candidate.content.parts
WH_Empty(p) ==
    LET t == task[p] IN
    /\ t.response.kind = "ok" /\ t.response.text = <<>> /\ ~t.response.image
    /\ \E ok \in BOOLEAN :
        Step(p, "wh_inspect",
             [t EXCEPT !.pc = IF ok THEN "done" ELSE "wh_gr_except",
                       !.outcome = IF ok THEN "notice" ELSE "",
                       !.out = Sent(t, "notice_empty", <<>>, Res(ok))])

\* the parts: a text part goes to send_long_message, an image part (taken
\* here to come after the text part) to reply_photo
WH_Parts(p) ==
    LET t == task[p] IN
    /\ t.response.kind = "ok" /\ (t.response.text # <<>> \/ t.response.image)
    /\ Step(p, "wh_inspect",
            [t EXCEPT !.pc = IF t.response.text # <<>> THEN "wh_slm"
                            ELSE "wh_photo",
                      !.slm_text = t.response.text, !.slm_i = 0])

\* send_long_message (api/bot.py): nothing for a blank text, else one
\* reply_text per TELEGRAM_MAX_MESSAGE_LENGTH characters
WH_SLM_Send(p) ==
    LET t == task[p]
        after == IF t.response.image THEN "wh_photo" ELSE "done"
    IN
    IF t.slm_i = 0 /\ TStrip(t.slm_text) = <<>>
    THEN Step(p, "wh_slm", [t EXCEPT !.pc = after,
                                     !.outcome = IF after = "done"
                                                 THEN "replied" ELSE ""])
    ELSE \E ok \in BOOLEAN :
            LET last == t.slm_i + TELEGRAM_MAX_MESSAGE_LENGTH
                            >= TLen(t.slm_text)
                to == IF ~ok THEN "wh_gr_except"
                      ELSE IF last THEN after ELSE "wh_slm"
            IN  Step(p, "wh_slm",
                     [t EXCEPT
                        !.out = Sent(t, "final", Chunk(t.slm_text, t.slm_i),
                                     Res(ok)),
                        !.slm_i = t.slm_i + TELEGRAM_MAX_MESSAGE_LENGTH,
                        !.pc = to,
                        !.outcome = IF to = "done" THEN "replied" ELSE ""])

\* reply_photo
WH_Photo(p) ==
    LET t == task[p] IN
    \E ok \in BOOLEAN :
        Step(p, "wh_photo",
             [t EXCEPT !.pc = IF ok THEN "done" ELSE "wh_gr_except",
                       !.outcome = IF ok THEN "replied" ELSE "",
                       !.image_sent = ok,
                       !.out = Sent(t, "photo", <<>>, Res(ok))])

\* handle_gemini_response's except: the error reply
WH_GrExcept(p) ==
    LET t == task[p] IN
    \E ok \in BOOLEAN :
        Step(p, "wh_gr_except",
             [t EXCEPT !.pc = IF ok THEN "done" ELSE "wh_except",
                       !.outcome = IF ok THEN "error_notice" ELSE "",
                       !.out = Sent(t, "error", <<>>, Res(ok))])

\* handle_message's except: the error reply
WH_Except(p) ==
    LET t == task[p] IN
    \E ok \in BOOLEAN :
        Step(p, "wh_except",
             [t EXCEPT !.pc = "done",
                       !.outcome = IF ok THEN "error_notice" ELSE "crashed",
                       !.out = Sent(t, "error", <<>>, Res(ok))])

\* /clear
WH_StartClear(p, users) ==
    \E u \in users :
        Admit(p, [Fresh(u, "wh_clear", "message") EXCEPT !.pc = "wh_clear"])

\* clear_history: redis_client.delete(f"history:{user_id}") and the reply
WH_Clear(p) ==
    LET t == task[p]
        key == K_wh_history(t.user)
    IN  /\ t.pc = "wh_clear"
        /\ db' = IF redis = "up" THEN [db EXCEPT ![key] = None] ELSE db
        /\ appended' = IF redis = "up" THEN [appended EXCEPT ![key] = <<>>]
                       ELSE appended
        /\ task' = [task EXCEPT ![p] =
                [t EXCEPT
                    !.pc = "done",
                    !.outcome = IF redis = "up" THEN "cleared" ELSE "not_cleared",
                    !.calls = IF redis = "absent" THEN t.calls
                              ELSE Did(t, "delete:history"),
                    !.out = Sent(t, IF redis = "up" THEN "info"
                                    ELSE IF redis = "absent" THEN "no_store"
                                    ELSE "error", <<>>, "ok")]]
        /\ UNCHANGED <<redis, budget>>

(***************************************************************************)
(* Inputs of the runs.                                                     *)
(***************************************************************************)
\* the sequences over S of length at most n
SeqsUpTo(S, n) == UNION {[1..k -> S] : k \in 0..n}

RECURSIVE ConcatAll(_)
\* the concatenation of a sequence of texts
ConcatAll(ts) == IF ts = <<>> THEN <<>> ELSE TCat(Head(ts), ConcatAll(Tail(ts)))

Hi == Str(<<"H", "i">>)
Hello == Str(<<"H", "e", "l", "l", "o", "!">>)

\* what a chunk's text can be: empty, a blank, two halves of "Hello!"
Fragments == {<<>>, Str(<<" ">>), Str(<<"H", "e", "l">>), Str(<<"l", "o", "!">>)}

\* the longest stream, in chunks
MaxFragments == 2

\* the streams: chunks, then exhaustion or an error
Streams(frags, n) ==
    LET texts == SeqsUpTo({TextItem(f) : f \in frags}, n)
    IN  texts \cup {Append(s, ErrorItem) : s \in texts}

Responses ==
    {Response("blocked", <<>>, FALSE, None),
     Response("finish_other", <<>>, FALSE, Some(2)),
     Response("ok", Hello, FALSE, Some(3)),
     Response("ok", Hello, TRUE, None),
     Response("ok", <<>>, FALSE, None)}

ArgLists == {<<>>, <<"default">>, <<"a">>, <<"b", "c">>}

Models == {FALLBACK_MODEL, "gemini-2.5-flash-image-preview"}

HistoryKeys ==
    {K_history(u, c) : u \in Users, c \in ChatNames}
    \cup {K_wh_history(u) : u \in Users}

EmptyDb == [k \in Keys |-> None]

\* the store is empty and up, no handler runs, n updates will arrive
InitWith(n) ==
    /\ db = EmptyDb
    /\ redis = "up"
    /\ task = [p \in Procs |-> Fresh(0, "none", "none")]
    /\ budget = n
    /\ appended = [k \in HistoryKeys |-> <<>>]

\* the steps of a text message: handle_message, the streamed reply,
\* send_long_message, update_history
MessageSteps(p, streams, delays, usages) ==
    \/ HM_GetModel(p) \/ HM_GetPersona(p) \/ HM_Typing(p)
    \/ HM_HistActive(p) \/ HM_HistRead(p)
    \/ HM_SendRaises(p) \/ HM_Send(p, streams, usages)
    \/ HM_Except(p)
    \/ ST_Placeholder(p) \/ ST_Chunk(p, delays) \/ ST_ChunkRaises(p)
    \/ ST_Exhausted(p) \/ ST_Finish(p) \/ ST_NoContent(p) \/ ST_Except(p)
    \/ SLM_Send(p)
    \/ UH_Active(p) \/ UH_HistActive(p) \/ UH_HistRead(p) \/ UH_Set(p)

\* the steps of the image branch
ImageSteps(p, responses) ==
    \/ IMG_CallRaises(p) \/ IMG_Call(p, responses)
    \/ GR_UsageDaily(p) \/ GR_UsageMonthly(p)
    \/ GR_Blocked(p) \/ GR_FinishOther(p) \/ GR_Parts(p) \/ GR_Except(p)

\* the steps of the commands and buttons
CommandSteps(p) ==
    \/ Menu(p)
    \/ CL_Active(p) \/ CL_Delete(p)
    \/ NC_SetActive(p) \/ NC_Delete(p)
    \/ SC_Active(p) \/ SC_Read(p) \/ SC_Copy(p) \/ SC_Sadd(p)
    \/ SC_SetActive(p)
    \/ LC_Members(p) \/ LC_SetActive(p)
    \/ DC_Members(p) \/ DC_Delete(p) \/ DC_Srem(p) \/ DC_Active(p)
    \/ DC_Reset(p)
    \/ SM_Set(p)

\* the steps of the webhook variant's text message that is answered by a
\* text
WebhookReplySteps(p, responses) ==
    \/ WH_GetModel(p) \/ WH_Typing(p) \/ WH_HistRead(p)
    \/ WH_SendRaises(p) \/ WH_Send(p, responses)
    \/ WH_UpdateHistory(p)
    \/ WH_Parts(p) \/ WH_SLM_Send(p)
    \/ WH_GrExcept(p) \/ WH_Except(p)

\* the other steps of the webhook variant: the notices, the photo, /clear
WebhookOtherSteps(p) ==
    \/ WH_Blocked(p) \/ WH_FinishOther(p) \/ WH_Empty(p) \/ WH_Photo(p)
    \/ WH_Clear(p)

\* the command and button updates main.py's handlers are registered for
CommandUpdates(p, users, arglists, models) ==
    \/ StartClear(p, users, {"message", "callback"})
    \/ StartNewChat(p, users, {"message", "callback"})
    \/ StartSaveChat(p, users, arglists)
    \/ StartLoadChat(p, users, arglists)
    \/ StartDeleteChat(p, users, arglists)
    \/ StartSelectModel(p, users, models)

(***************************************************************************)
(* Spec: main.py with its updates handled one after the other (the         *)
(* application is built without concurrent_updates), for an allowed user   *)
(* and a user who is not allowed.  A reply is one chunk at most.           *)
(***************************************************************************)
MaxUpdates == 4

ShortStreams == Streams({Str(<<" ">>), Hello}, 1)

Init == InitWith(MaxUpdates)

Next ==
    \/ StartMessage(1, {1, 3}, {Hi})
    \/ CommandUpdates(1, {1, 3}, ArgLists, Models)
    \/ MessageSteps(1, ShortStreams, {9}, {None})
    \/ ImageSteps(1, Responses)
    \/ CommandSteps(1)
    \/ StartUsage(1, {1, 3})
    \/ US_Daily(1) \/ US_Monthly(1)
    \/ WH_StartMessage(1, {1, 3}, {Hi})
    \/ WH_StartClear(1, {1, 3})
    \/ WebhookReplySteps(1, Responses)
    \/ WebhookOtherSteps(1)

Spec == Init /\ [][Next]_vars

(***************************************************************************)
(* SpecStream: text messages of one user whose default chat is new or      *)
(* holds one exchange, with every stream of up to MaxFragments chunks; a   *)
(* chunk arrives half a second after the one before, so that at most       *)
(* every second chunk is due for a live edit.                              *)
(***************************************************************************)
MaxMessages == 1

\* the store after "Hi" was answered "Hello!" in the default chat of user 1
OneExchange == AppendPair(<<>>, Hi, Hello)

InitStream ==
    /\ \E h \in {<<>>, OneExchange} :
        /\ db = [EmptyDb EXCEPT ![K_history(1, DEFAULT_CHAT_NAME)] =
                    IF h = <<>> THEN None ELSE Some(json_dumps(h))]
        /\ appended = [k \in HistoryKeys |->
                        IF k = K_history(1, DEFAULT_CHAT_NAME) THEN h
                        ELSE <<>>]
    /\ redis = "up"
    /\ task = [p \in Procs |-> Fresh(0, "none", "none")]
    /\ budget = MaxMessages

NextStream ==
    \/ StartMessage(1, {1}, {Hi})
    \/ MessageSteps(1, Streams(Fragments, MaxFragments), {5}, {None})

SpecStream == InitStream /\ [][NextStream]_vars

(***************************************************************************)
(* SpecAppend: a long run of text messages of one user, in the default     *)
(* chat or in a saved chat, enough of them for the history to be           *)
(* truncated.                                                              *)
(***************************************************************************)
MaxAppends == 6

Yo == Str(<<"Y", "o">>)

InitAppend ==
    /\ \E named \in BOOLEAN :
        db = IF named
             THEN [EmptyDb EXCEPT ![K_active(1)] = Some("a"),
                                  ![K_chats(1)] = Some({"a"})]
             ELSE EmptyDb
    /\ redis = "up"
    /\ task = [p \in Procs |-> Fresh(0, "none", "none")]
    /\ budget = MaxAppends
    /\ appended = [k \in HistoryKeys |-> <<>>]

NextAppend ==
    \/ StartMessage(1, {1}, {Hi, Yo})
    \/ MessageSteps(1, ShortStreams, {9}, {None})
    \/ WH_StartMessage(1, {1}, {Hi, Yo})
    \/ WebhookReplySteps(1, {Response("ok", Hello, FALSE, None)})

SpecAppend == InitAppend /\ [][NextAppend]_vars

(***************************************************************************)
(* SpecConc: two tasks handle updates of the same user at once and         *)
(* interleave at every awaited call.  The user has answered one message    *)
(* and saved the chat as "a"; the active chat is "a" or the default one.   *)
(***************************************************************************)
MaxConcUpdates == 2

InitConc ==
    /\ \E active \in {None, Some("a")} :
        db = [EmptyDb EXCEPT
                ![K_history(1, DEFAULT_CHAT_NAME)] = Some(json_dumps(OneExchange)),
                ![K_history(1, "a")] = Some(json_dumps(OneExchange)),
                ![K_chats(1)] = Some({"a"}),
                ![K_active(1)] = active]
    /\ redis = "up"
    /\ task = [p \in Procs |-> Fresh(0, "none", "none")]
    /\ budget = MaxConcUpdates
    /\ appended = [k \in HistoryKeys |->
                    IF k \in {K_history(1, DEFAULT_CHAT_NAME), K_history(1, "a")}
                    THEN OneExchange ELSE <<>>]

NextConc ==
    \E p \in Procs :
        \/ StartMessage(p, {1}, {Hi})
        \/ CommandUpdates(p, {1}, {<<>>, <<"a">>}, {FALLBACK_MODEL})
        \/ MessageSteps(p, ShortStreams, {9}, {None})
        \/ CommandSteps(p)
        \/ WH_StartMessage(p, {1}, {Hi})
        \/ WebhookReplySteps(p, {Response("ok", Hello, FALSE, None)})

SpecConc == InitConc /\ [][NextConc]_vars

(***************************************************************************)
(* SpecEdits: one streamed reply of up to MaxChunks chunks "Hel" that      *)
(* arrive 0.3 s or 0.9 s apart, from a stream object with or without a     *)
(* usage_metadata that has a total_token_count.                            *)
(***************************************************************************)
MaxChunks == 3

InitEdits == InitWith(MaxMessages)

NextEdits ==
    \/ StartMessage(1, {1}, {Hi})
    \/ MessageSteps(1, Streams({Str(<<"H", "e", "l">>)}, MaxChunks), {3, 9},
                    {None, Some(3)})

SpecEdits == InitEdits /\ [][NextEdits]_vars

\* the same with the event loop running the handler on: every awaited
\* call returns or raises, and the handler takes its next step
SpecEditsLive == SpecEdits /\ WF_vars(NextEdits)

(***************************************************************************)
(* SpecLong: one reply of up to MaxLongChunks pieces whose lengths put the *)
(* text just below, at and above the live-edit threshold and the length    *)
(* of one outbound message: a streamed reply of main.py (every chunk due   *)
(* for a live edit, some chunks without text), or a reply of the webhook   *)
(* variant.                                                                *)
(***************************************************************************)
MaxLongChunks == 3

\* pieces of 4085, 1 and 4096 characters
LongFragments ==
    {<<Run("a", TELEGRAM_MAX_MESSAGE_LENGTH - EDIT_MARGIN - 1)>>,
     <<Run("b", 1)>>,
     <<Run("c", TELEGRAM_MAX_MESSAGE_LENGTH)>>}

\* the webhook variant's replies: the pieces of a stream in one text, or
\* a blank
LongResponses ==
    {Response("ok", ConcatAll(fs), FALSE, None) :
        fs \in SeqsUpTo(LongFragments \cup {Str(<<" ">>)}, MaxLongChunks)
                \ {<<>>}}

InitLong == InitWith(MaxMessages)

NextLong ==
    \/ StartMessage(1, {1}, {Hi})
    \/ MessageSteps(1, Streams(LongFragments \cup {<<>>}, MaxLongChunks),
                    {9}, {None})
    \/ WH_StartMessage(1, {1}, {Hi})
    \/ WebhookReplySteps(1, LongResponses)

SpecLong == InitLong /\ [][NextLong]_vars

(***************************************************************************)
(* SpecStore: the handlers against a store that holds a model choice, a    *)
(* saved chat, histories (one of them not JSON) and counters of user 1    *)
(* and nothing of user 2, and whose calls succeed ("up") or raise          *)
(* ("down"), changing at any moment.  With no client at all ("absent") only the webhook variant      *)
(* serves updates: main.py does not start its application then.            *)
(***************************************************************************)
MaxStoreUpdates == 1

\* a stored value json.loads raises on
Malformed == [json |-> FALSE, data |-> <<>>]

InitStore ==
    /\ db = [EmptyDb EXCEPT
                ![K_model(1)] = Some("gemini-2.5-flash-image-preview"),
                ![K_active(1)] = Some("a"),
                ![K_chats(1)] = Some({"a"}),
                ![K_history(1, "a")] = Some(json_dumps(OneExchange)),
                ![K_history(1, DEFAULT_CHAT_NAME)] = Some(Malformed),
                ![K_wh_history(1)] = Some(Malformed),
                ![K_daily(1)] = Some(5),
                ![K_monthly(1)] = Some(7)]
    /\ redis \in {"up", "down", "absent"}
    /\ task = [p \in Procs |-> Fresh(0, "none", "none")]
    /\ budget = MaxStoreUpdates
    /\ appended = [k \in HistoryKeys |->
                    IF k = K_history(1, "a") THEN OneExchange ELSE <<>>]

\* the store's calls start or stop raising
StoreFlips ==
    /\ redis \in {"up", "down"}
    /\ redis' = IF redis = "up" THEN "down" ELSE "up"
    /\ UNCHANGED <<db, task, budget, appended>>

\* if not redis_client: missing.append(...); main() runs only when nothing
\* is missing
MainStarts ==
    /\ redis # "absent"
    /\ \/ StartMessage(1, {1, 2}, {Hi})
       \/ StartClear(1, {1, 2}, {"message", "callback"})
       \/ StartNewChat(1, {1, 2}, {"message"})
       \/ StartSaveChat(1, {1, 2}, {<<"b", "c">>})
       \/ StartLoadChat(1, {1, 2}, {<<"default">>, <<"a">>})
       \/ StartDeleteChat(1, {1, 2}, {<<"a">>})
       \/ StartUsage(1, {1, 2})

NextStore ==
    \/ StoreFlips
    \/ MainStarts
    \/ MessageSteps(1, ShortStreams, {9}, {None})
    \/ ImageSteps(1, Responses)
    \/ Menu(1)
    \/ CL_Active(1) \/ CL_Delete(1)
    \/ NC_SetActive(1) \/ NC_Delete(1)
    \/ SC_Active(1) \/ SC_Read(1) \/ SC_Copy(1) \/ SC_Sadd(1)
    \/ SC_SetActive(1)
    \/ LC_Members(1) \/ LC_SetActive(1)
    \/ DC_Members(1) \/ DC_Delete(1) \/ DC_Srem(1) \/ DC_Active(1)
    \/ DC_Reset(1)
    \/ US_Daily(1) \/ US_Monthly(1)
    \/ WH_StartMessage(1, {1, 2}, {Hi})
    \/ WH_StartClear(1, {1, 2})
    \/ WebhookReplySteps(1, {Response("ok", Hello, FALSE, None)})
    \/ WH_Clear(1)

SpecStore == InitStore /\ [][NextStore]_vars

(***************************************************************************)
(* Properties.                                                             *)
(***************************************************************************)
\* the positions of the outbound calls of the given kind
Outs(t, kind) == {i \in 1..Len(t.out) : t.out[i].kind = kind}

\* the texts of the final chunks that were delivered, joined in order
FinalText(t) ==
    LET F[i \in 0..Len(t.out)] ==
            IF i = 0 THEN <<>>
            ELSE IF t.out[i].kind = "final" /\ t.out[i].res = "ok"
                 THEN TCat(F[i - 1], t.out[i].text)
                 ELSE F[i - 1]
    IN  F[Len(t.out)]

\* how often the task made the given store or model call
Count(t, call) == Cardinality({i \in 1..Len(t.calls) : t.calls[i] = call})

\* the turns stored under a history key of the store d
Stored(d, k) == IF d[k].some THEN d[k].val.data ELSE <<>>

\* the history blobs of the store are those of the store d
SameHistories(d) == \A k \in HistoryKeys : db[k] = d[k]

IsSuffix(h, log) ==
    /\ Len(h) <= Len(log)
    /\ h = SubSeq(log, Len(log) - Len(h) + 1, Len(log))

Quiet == \A p \in Procs : task[p].pc \in {"idle", "done"}

\* the stored turns h of a chat against log, the turns appended to it: at
\* most HISTORY_LIMIT pairs, the most recent ones in append order, and the
\* newest pair among them
RecentSuffix(h, log) ==
    /\ Len(h) <= 2 * HISTORY_LIMIT
    /\ IsSuffix(h, log)
    /\ (log # <<>> => Len(h) >= 2)

\* C1: whatever was appended to a chat, the stored history holds at most
\* HISTORY_LIMIT pairs, it is a suffix of the sequence of all appended
\* turns (the most recent ones, in append order), the newest pair is never
\* the one evicted, and get_history returns the stored turns; in main.py
\* for every chat name, in api/bot.py for the user's one history
C1_HistoryIsRecentSuffix ==
    /\ \A c \in ChatNames :
            RecentSuffix(Stored(db, K_history(1, c)),
                         appended[K_history(1, c)])
    /\ get_history(1) = Stored(db, K_history(1, get_active_chat_name(1)))
    /\ RecentSuffix(Stored(db, K_wh_history(1)), appended[K_wh_history(1)])
    /\ wh_get_history(1) = Stored(db, K_wh_history(1))

\* C1 witness: in the saved chat "a" older pairs have been evicted
C1_Witness ==
    /\ get_active_chat_name(1) = "a"
    /\ Len(appended[K_history(1, "a")]) > Len(get_history(1))
    /\ Len(get_history(1)) >= 2

C3_ActiveChatIsKnown ==
    Quiet => get_active_chat_name(1)
                \in {DEFAULT_CHAT_NAME} \cup r_smembers(K_chats(1))

\* C4: an update of a user who is not on the allow-list makes no store
\* call and no model call, leaves the store as it was, and is answered by
\* the refusal alone (a reply to a message, an alert to a button)
C4_RefusedTouchesNothing ==
    \A p \in Procs :
        LET t == task[p] IN
        (t.pc # "idle" /\ t.user \notin ALLOWED_USER_IDS)
        => /\ t.pc = "done"
           /\ t.calls = <<>>
           /\ db = t.pre
           /\ t.out = <<Msg(IF t.via = "message" THEN "refusal" ELSE "alert",
                            <<>>, "ok")>>

\* C4 witness: a button press of the user who is not allowed was refused
C4_Witness ==
    \E p \in Procs :
        /\ task[p].user = 3 /\ task[p].via = "callback"
        /\ task[p].pc = "done"

\* the stream was obtained and consumed to its end, and the placeholder
\* and every final chunk went out
DeliveredWell(t) ==
    /\ t.pc = "done" /\ t.op = "message"
    /\ Count(t, "model:stream") = 1
    /\ t.raised = ""
    /\ \A i \in Outs(t, "placeholder") \cup Outs(t, "final") :
            t.out[i].res = "ok"

\* C5: when a stream is consumed without error and its concatenation is
\* not blank, the delivered final text is the concatenation of the
\* fragments in arrival order, update_history wrote once, and the chat
\* holds its previous turns followed by the user message and that text;
\* in a new default chat "Hi" answered "Hello!" is stored as those two turns
C5_StreamedReplyIsStored ==
    \A p \in Procs :
        LET t == task[p]
            full == ConcatAll(t.consumed)
            prior == Stored(t.pre, K_history(t.user, DEFAULT_CHAT_NAME))
        IN  (DeliveredWell(t) /\ TStrip(full) # <<>>
             /\ Len(prior) + 2 <= HISTORY_LIMIT)
            => /\ FinalText(t) = full
               /\ Count(t, "set:history") = 1
               /\ get_history(t.user)
                    = prior \o <<[role |-> "user", text |-> t.msg],
                                 [role |-> "model", text |-> full]>>
               /\ (prior = <<>> /\ t.msg = Hi /\ full = Hello
                   => Stored(db, K_history(t.user, DEFAULT_CHAT_NAME))
                        = <<[role |-> "user", text |-> Hi],
                            [role |-> "model", text |-> Hello]>>)

\* C5 witness: "Hel", "lo!" arrived in a new default chat and were stored
C5_Witness ==
    \E p \in Procs :
        /\ DeliveredWell(task[p])
        /\ task[p].consumed = <<Str(<<"H", "e", "l">>), Str(<<"l", "o", "!">>)>>
        /\ ~task[p].pre[K_history(1, DEFAULT_CHAT_NAME)].some
        /\ get_history(1) = <<[role |-> "user", text |-> Hi],
                              [role |-> "model", text |-> Hello]>>

\* C6: when the stream ends and the accumulated text is blank, the "no
\* content" notice goes out, no final chunk does, update_history is not
\* reached and every history blob is as before the update
C6_BlankReplyNotStored ==
    \A p \in Procs :
        LET t == task[p] IN
        (/\ t.pc = "done" /\ t.op = "message"
         /\ Count(t, "model:stream") = 1 /\ t.raised = ""
         /\ \A i \in Outs(t, "placeholder") : t.out[i].res = "ok"
         /\ TStrip(ConcatAll(t.consumed)) = <<>>)
        => /\ Outs(t, "no_content") # {}
           /\ Outs(t, "final") = {}
           /\ Count(t, "set:history") = 0
           /\ SameHistories(t.pre)

\* C6 witness: a stream of one blank chunk ended with the notice, in a
\* chat that had a history
C6_Witness ==
    \E p \in Procs :
        /\ task[p].pc = "done" /\ task[p].outcome = "no_content"
        /\ task[p].consumed = <<Str(<<" ">>)>>
        /\ task[p].pre[K_history(1, DEFAULT_CHAT_NAME)].some

\* C7: when the stream raises, the placeholder's deletion is attempted,
\* then an error notice is sent, nothing is delivered as the final text,
\* update_history is not reached and every history blob is as before
C7_StreamErrorNotStored ==
    \A p \in Procs :
        LET t == task[p] IN
        (t.pc = "done" /\ t.raised = "stream")
        => /\ \E i \in Outs(t, "delete_placeholder"), j \in Outs(t, "error") :
                i < j
           /\ Outs(t, "final") = {}
           /\ t.outcome \in {"failed", "error_notice", "crashed"}
           /\ Count(t, "set:history") = 0
           /\ SameHistories(t.pre)

\* C7 witness: the stream raised after a fragment that had been shown in a
\* live edit
C7_Witness ==
    \E p \in Procs :
        /\ task[p].pc = "done" /\ task[p].raised = "stream"
        /\ TStrip(task[p].buf) # <<>>
        /\ \E i \in Outs(task[p], "edit") : task[p].out[i].res = "ok"

\* the model call of a message failed: it raised, the stream raised, the
\* request was blocked, the finish reason was not STOP, or nothing came
ModelCallFailed(t) ==
    \/ t.raised # ""
    \/ t.response.kind \in {"blocked", "finish_other"}
    \/ /\ t.response.kind = "ok" /\ ~t.response.image
       /\ TStrip(t.response.text) = <<>>

\* C8 as claimed: a message whose model call failed is answered by a
\* notice and leaves every history blob as it was
C8_FailureLeavesHistory ==
    \A p \in Procs :
        LET t == task[p] IN
        (t.pc = "done" /\ t.op \in {"message", "wh_message"}
         /\ ModelCallFailed(t))
        => SameHistories(t.pre)

\* C9: right after update_history wrote the pair (U, M), get_history ends
\* with the user turn U followed by the model turn M, whatever the chat
\* held before; so it is in api/bot.py after the session's history is saved
C9_AppendThenRead ==
    \A p \in Procs :
        LET t == task[p]
            h == get_history(t.user)
            w == wh_get_history(t.user)
        IN  /\ (t.op = "message" /\ t.pc = "done"
                /\ Count(t, "set:history") = 1)
               => /\ Len(h) >= 2
                  /\ h[Len(h) - 1] = [role |-> "user", text |-> t.msg]
                  /\ h[Len(h)] = [role |-> "model",
                                  text |-> ConcatAll(t.consumed)]
            /\ (t.op = "wh_message" /\ t.pc = "done"
                /\ Count(t, "set:history") = 1)
               => /\ Len(w) >= 2
                  /\ w[Len(w) - 1] = [role |-> "user", text |-> t.msg]
                  /\ w[Len(w)] = [role |-> "model",
                                  text |-> t.response.text]

\* C9 witness: the pair was appended to the saved chat "a" when it already
\* held HISTORY_LIMIT turns
C9_Witness ==
    \E p \in Procs :
        /\ task[p].op = "message"
        /\ task[p].pc = "done" /\ Count(task[p], "set:history") = 1
        /\ get_active_chat_name(1) = "a"
        /\ Len(Stored(task[p].pre, K_history(1, "a"))) = HISTORY_LIMIT

\* C10: once clear_history_logic (main.py) or clear_history (api/bot.py)
\* has deleted the history, get_history returns no turn
C10_ClearThenRead ==
    \A p \in Procs :
        LET t == task[p] IN
        /\ (t.op = "clear" /\ Count(t, "delete:history") = 1)
           => get_history(t.user) = <<>>
        /\ (t.op = "wh_clear" /\ Count(t, "delete:history") = 1)
           => wh_get_history(t.user) = <<>>

\* C10 witness: the cleared chat was a saved chat with a history
C10_Witness ==
    \E p \in Procs :
        LET t == task[p] IN
        /\ t.op = "clear" /\ t.pc = "done"
        /\ get_active_chat_name(t.user) # DEFAULT_CHAT_NAME
        /\ t.pre[K_history(t.user, get_active_chat_name(t.user))].some

\* the active chat name of user u in the store d
ActiveIn(d, u) ==
    IF d[K_active(u)].some THEN d[K_active(u)].val ELSE DEFAULT_CHAT_NAME

\* the store differs from the store d in the keys of ks at most
SameExcept(d, ks) == \A k \in Keys \ ks : db[k] = d[k]

\* C11: clear deletes the history blob of the active chat and nothing
\* else: the saved-chat set, the active pointer, the model, the persona,
\* the counters and every other history blob are as before; /clear of
\* api/bot.py deletes history:{user} and nothing else
C11_ClearTouchesOneBlob ==
    \A p \in Procs :
        LET t == task[p] IN
        /\ (t.op = "clear" /\ Count(t, "delete:history") = 1)
           => /\ SameExcept(t.pre, {K_history(t.user, ActiveIn(t.pre, t.user))})
              /\ ~db[K_history(t.user, ActiveIn(t.pre, t.user))].some
        /\ (t.op = "wh_clear" /\ Count(t, "delete:history") = 1)
           => /\ SameExcept(t.pre, {K_wh_history(t.user)})
              /\ ~db[K_wh_history(t.user)].some

\* C11 witness: the saved chat "a" was active and cleared while the
\* default chat had a history and the model had been chosen or not
C11_Witness ==
    \E p \in Procs :
        LET t == task[p] IN
        /\ t.op = "clear" /\ t.pc = "done"
        /\ ActiveIn(t.pre, 1) = "a"
        /\ t.pre[K_history(1, "a")].some
        /\ t.pre[K_history(1, DEFAULT_CHAT_NAME)].some
        /\ t.pre[K_chats(1)] = Some({"a"})
        /\ ~db[K_history(1, "a")].some

\* the task wrote nothing to the store
NoWrites(t) ==
    \A i \in 1..Len(t.calls) :
        t.calls[i] \in {"get:active_chat", "get:history", "get:model",
                        "get:persona", "smembers:chats"}

\* C12: /save_chat with no name, with the default name, or while the
\* active chat has no history is answered by a notice and changes nothing:
\* no blob is written, the saved-chat set and the active pointer stay
C12_SaveRejected ==
    \A p \in Procs :
        LET t == task[p]
            source == K_history(t.user, ActiveIn(t.pre, t.user))
        IN  (/\ t.op = "save_chat" /\ t.pc = "done"
             /\ t.user \in ALLOWED_USER_IDS
             /\ \/ t.chat_name \in {"", DEFAULT_CHAT_NAME}
                \/ Stored(t.pre, source) = <<>>)
            => /\ db = t.pre
               /\ NoWrites(t)
               /\ t.outcome = "rejected"
               /\ Len(t.out) = 1

\* C12 witness: /save_chat a was rejected because the active chat, the
\* saved chat "b_c" that had been cleared, has no history
C12_Witness ==
    \E p \in Procs :
        LET t == task[p] IN
        /\ t.op = "save_chat" /\ t.pc = "done"
        /\ t.chat_name = "a"
        /\ ActiveIn(t.pre, 1) = "b_c"
        /\ ~t.pre[K_history(1, "b_c")].some
        /\ t.out = <<Msg("empty", <<>>, "ok")>>

\* C13: a /save_chat that is not rejected (a name other than the default
\* one, an active chat S with a history) leaves under the new name the
\* blob S had when the command was given, the new name in the saved-chat
\* set, the active pointer on the new name, and the blob of S as it was
C13_SaveCopiesAndSwitches ==
    \A p \in Procs :
        LET t == task[p]
            source == K_history(t.user, ActiveIn(t.pre, t.user))
            target == K_history(t.user, t.chat_name)
        IN  (/\ t.op = "save_chat" /\ t.pc = "done"
             /\ t.user \in ALLOWED_USER_IDS
             /\ t.chat_name \notin {"", DEFAULT_CHAT_NAME}
             /\ Stored(t.pre, source) # <<>>)
            => /\ db[target] = t.pre[source]
               /\ get_history(t.user) = Stored(t.pre, source)
               /\ t.chat_name \in r_smembers(K_chats(t.user))
               /\ get_active_chat_name(t.user) = t.chat_name
               /\ db[source] = t.pre[source]
               /\ SameExcept(t.pre, {target, K_chats(t.user),
                                     K_active(t.user)})

\* C13 witness: the default chat, holding "Hi" / "Hello!", was saved as
\* "b_c" when "a" was the only saved chat
C13_Witness ==
    \E p \in Procs :
        LET t == task[p] IN
        /\ t.op = "save_chat" /\ t.pc = "done"
        /\ t.chat_name = "b_c"
        /\ ActiveIn(t.pre, 1) = DEFAULT_CHAT_NAME
        /\ Stored(t.pre, K_history(1, DEFAULT_CHAT_NAME)) = OneExchange
        /\ t.pre[K_chats(1)] = Some({"a"})
        /\ db[K_chats(1)] = Some({"a", "b_c"})
        /\ db[K_active(1)] = Some("b_c")

\* C14: /delete_chat of a saved chat that is the active one resets the
\* active pointer to the default name, takes the name out of the
\* saved-chat set and deletes the blob stored under the name, whatever
\* else the user has saved
C14_DeleteActiveResets ==
    \A p \in Procs :
        LET t == task[p] IN
        (/\ t.op = "delete_chat" /\ t.pc = "done"
         /\ t.user \in ALLOWED_USER_IDS
         /\ t.chat_name # DEFAULT_CHAT_NAME
         /\ t.pre[K_chats(t.user)].some
         /\ t.chat_name \in t.pre[K_chats(t.user)].val
         /\ ActiveIn(t.pre, t.user) = t.chat_name)
        => /\ get_active_chat_name(t.user) = DEFAULT_CHAT_NAME
           /\ db[K_active(t.user)] = Some(DEFAULT_CHAT_NAME)
           /\ t.chat_name \notin r_smembers(K_chats(t.user))
           /\ ~db[K_history(t.user, t.chat_name)].some
           /\ r_smembers(K_chats(t.user))
                = t.pre[K_chats(t.user)].val \ {t.chat_name}

\* C14 witness: the chat was saved as "a", which made it active, and then
\* /delete_chat a was given
C14_Witness ==
    \E p \in Procs :
        LET t == task[p] IN
        /\ t.op = "delete_chat" /\ t.pc = "done" /\ t.chat_name = "a"
        /\ t.pre[K_active(1)] = Some("a")
        /\ t.pre[K_chats(1)] = Some({"a"})
        /\ t.pre[K_history(1, "a")].some
        /\ db[K_active(1)] = Some(DEFAULT_CHAT_NAME)
        /\ ~db[K_chats(1)].some

\* C15: /delete_chat with no name, with the default name or with a name
\* that is not saved changes nothing in the store; /delete_chat of a saved
\* chat that is not the active one changes the blob of that chat and the
\* saved-chat set only
C15_DeleteLeavesTheRest ==
    \A p \in Procs :
        LET t == task[p]
            saved == IF t.pre[K_chats(t.user)].some
                     THEN t.pre[K_chats(t.user)].val ELSE {}
        IN  /\ (/\ t.op = "delete_chat" /\ t.pc = "done"
                /\ t.user \in ALLOWED_USER_IDS
                /\ \/ t.chat_name \in {"", DEFAULT_CHAT_NAME}
                   \/ t.chat_name \notin saved)
               => db = t.pre /\ NoWrites(t) /\ t.outcome = "rejected"
            /\ (/\ t.op = "delete_chat" /\ t.pc = "done"
                /\ t.user \in ALLOWED_USER_IDS
                /\ t.chat_name # DEFAULT_CHAT_NAME
                /\ t.chat_name \in saved
                /\ ActiveIn(t.pre, t.user) # t.chat_name)
               => /\ SameExcept(t.pre, {K_history(t.user, t.chat_name),
                                        K_chats(t.user)})
                  /\ get_active_chat_name(t.user) = ActiveIn(t.pre, t.user)

\* C15 witness: with "a" and "b_c" saved and "b_c" active, /delete_chat a
\* was carried out
C15_Witness ==
    \E p \in Procs :
        LET t == task[p] IN
        /\ t.op = "delete_chat" /\ t.pc = "done" /\ t.chat_name = "a"
        /\ t.pre[K_chats(1)] = Some({"a", "b_c"})
        /\ t.pre[K_active(1)] = Some("b_c")
        /\ db[K_chats(1)] = Some({"b_c"})
        /\ db[K_active(1)] = Some("b_c")
        /\ db[K_history(1, "b_c")].some
        /\ ~db[K_history(1, "a")].some

\* the counter stored under key k of the store d
Counter(d, k) == IF d[k].some THEN d[k].val ELSE 0

\* the update is a message to an image model whose response came with a
\* total_token_count
Recorded(t) ==
    /\ t.op = "message" /\ Count(t, "model:generate") = 1
    /\ t.raised = "" /\ t.response.usage.some

\* C16: no handler ever lowers the daily or the monthly counter; a
\* finished update has raised both by the token count its model response
\* reported, and by nothing when there was no such response, so two
\* records n1, n2 in a row leave both at the previous value + n1 + n2;
\* /usage reports the two counters
C16_UsageIsAdditive ==
    \A p \in Procs :
        LET t == task[p]
            n == IF Recorded(t) THEN t.response.usage.val ELSE 0
        IN  t.pc # "idle" =>
            /\ Counter(db, K_daily(t.user)) >= Counter(t.pre, K_daily(t.user))
            /\ Counter(db, K_monthly(t.user))
                    >= Counter(t.pre, K_monthly(t.user))
            /\ t.pc = "done" =>
                /\ Counter(db, K_daily(t.user))
                        = Counter(t.pre, K_daily(t.user)) + n
                /\ Counter(db, K_monthly(t.user))
                        = Counter(t.pre, K_monthly(t.user)) + n
            /\ (t.op = "usage" /\ t.pc = "done"
                /\ t.user \in ALLOWED_USER_IDS)
               => t.reported = <<Counter(db, K_daily(t.user)),
                                 Counter(db, K_monthly(t.user))>>

\* C16 witness: after a record of 2 tokens a record of 3 tokens left both
\* counters at 5
C16_Witness ==
    \E p \in Procs :
        LET t == task[p] IN
        /\ t.pc = "done" /\ Recorded(t) /\ t.response.usage.val = 3
        /\ t.pre[K_daily(1)] = Some(2) /\ t.pre[K_monthly(1)] = Some(2)
        /\ db[K_daily(1)] = Some(5) /\ db[K_monthly(1)] = Some(5)

\* C17 as claimed: when a streamed reply with a text was finalized and the
\* stream object carried a total_token_count, the user's daily and monthly
\* counters have grown by it
C17_StreamUsageRecorded ==
    \A p \in Procs :
        LET t == task[p] IN
        (/\ t.op = "message" /\ t.pc = "done"
         /\ Count(t, "model:stream") = 1
         /\ Count(t, "set:history") = 1
         /\ t.stream_usage.some)
        => /\ Counter(db, K_daily(t.user))
                = Counter(t.pre, K_daily(t.user)) + t.stream_usage.val
           /\ Counter(db, K_monthly(t.user))
                = Counter(t.pre, K_monthly(t.user)) + t.stream_usage.val

\* C18: a message whose model response has no total_token_count (and a
\* streamed reply, whose usage is never looked at) creates and changes no
\* counter key and makes no counter call, and the missing usage raises
\* nothing: the handler goes on to look at the response and answers it
C18_NoUsageNoRecord ==
    \A p \in Procs :
        LET t == task[p] IN
        (t.op = "message" /\ t.pc # "idle" /\ ~Recorded(t))
        => /\ db[K_daily(t.user)] = t.pre[K_daily(t.user)]
           /\ db[K_monthly(t.user)] = t.pre[K_monthly(t.user)]
           /\ Count(t, "incrby:daily") = 0
           /\ Count(t, "incrby:monthly") = 0
           /\ (t.pc = "done" /\ Count(t, "model:generate") = 1
               /\ t.raised = "")
              => /\ t.response.kind = "blocked"
                    => Outs(t, "notice_blocked") # {}
                 /\ t.response.kind = "finish_other"
                    => Outs(t, "notice_finish") # {}
                 /\ (t.response.kind = "ok" /\ t.response.image)
                    => Outs(t, "photo") # {}
                 /\ (t.response.kind = "ok" /\ ~t.image_sent
                     /\ ~IsBlank(t.response.text))
                    => Outs(t, "final") # {}

\* C18 witness: a response without usage was answered with its text while
\* the counters stood where an earlier response had left them
C18_Witness ==
    \E p \in Procs :
        LET t == task[p] IN
        /\ t.op = "message" /\ t.pc = "done"
        /\ Count(t, "model:generate") = 1
        /\ t.response.kind = "ok" /\ ~t.response.usage.some
        /\ t.pre[K_daily(t.user)].some
        /\ db[K_daily(t.user)] = t.pre[K_daily(t.user)]
        /\ db[K_monthly(t.user)] = t.pre[K_monthly(t.user)]
        /\ \E i \in Outs(t, "final") : t.out[i].res = "ok"

\* C19: the times of the successful live edits of a streamed reply, counted
\* from the placeholder, are more than update_interval apart, the first one
\* more than update_interval after the placeholder; so their number is at
\* most ceil(stream duration / update_interval), however many chunks came
C19_EditsSpaced ==
    \A p \in Procs :
        LET t == task[p]
            e == t.edit_at
        IN  /\ \A i \in 1..Len(e) :
                    e[i] - (IF i = 1 THEN 0 ELSE e[i - 1]) > UPDATE_INTERVAL
            /\ Len(e) = Cardinality({i \in Outs(t, "edit") :
                                        t.out[i].res = "ok"})
            /\ Len(e) <= (t.now + UPDATE_INTERVAL - 1) \div UPDATE_INTERVAL
            /\ e # <<>> => e[Len(e)] <= t.now

\* C19 witness: three chunks came, the second one too early for an edit,
\* and the placeholder was edited twice
C19_Witness ==
    \E p \in Procs :
        LET t == task[p] IN
        /\ t.op = "message" /\ t.pc = "done"
        /\ Len(t.consumed) = 3
        /\ Len(t.edit_at) = 2
        /\ Cardinality(Outs(t, "edit")) = 2

\* C20: whenever the send of a chunk of the final text has failed on its
\* markup, the next thing the handler sends is that same chunk again (as
\* plain text), and when that send succeeds and nothing else fails the
\* history pair is written
C20_MarkupRetried ==
    \A p \in Procs :
        LET t == task[p] IN
        (t.op = "message" /\ t.pc = "done")
        => \A i \in Outs(t, "final") :
              t.out[i].res = "bad_markup"
              => /\ i < Len(t.out)
                 /\ t.out[i + 1].text = t.out[i].text
                 /\ t.out[i + 1].kind # "error"
                 /\ (\A j \in (i + 1)..Len(t.out) :
                        t.out[j].res \in {"ok", "any"})
                    => Count(t, "set:history") = 1

\* C21: when the send of a chunk of a streamed reply's final text has
\* failed (not on its markup), no further chunk is sent, the history is
\* not written and every history blob is as it was when the message came
\* in, also when earlier chunks were delivered; the finished handler has
\* sent the error notice after the failure
C21_SendFailureAborts ==
    \A p \in Procs :
        LET t == task[p] IN
        (t.op = "message" /\ Count(t, "model:stream") = 1)
        => \A i \in Outs(t, "final") :
              t.out[i].res = "error"
              => /\ \A j \in Outs(t, "final") : j <= i
                 /\ Count(t, "set:history") = 0
                 /\ SameHistories(t.pre)
                 /\ t.outcome # "finalized"
                 /\ t.pc = "done" => \E j \in Outs(t, "error") : j > i

\* C21 witness: the first chunk of a long reply was delivered, the second
\* one failed, the error notice went out
C21_Witness ==
    \E p \in Procs :
        LET t == task[p] IN
        /\ t.op = "message" /\ t.pc = "done"
        /\ \E i, j \in Outs(t, "final") :
                /\ i < j
                /\ t.out[i].res = "ok"
                /\ TLen(t.out[i].text) = TELEGRAM_MAX_MESSAGE_LENGTH
                /\ t.out[j].res = "error"
        /\ \E k \in Outs(t, "error") : t.out[k].res = "ok"
        /\ Count(t, "set:history") = 0

\* C22: while the store's calls fail or there is no client, every wrapper
\* gives its default and changes nothing (the model is the fallback model,
\* the active chat the default one, the history empty, a counter 0, a
\* write leaves the store as it is), no step of a handler changes the
\* store, and what a handler reads is the default; a blob that is not JSON
\* reads as the empty history; a text message whose model call and
\* outbound calls succeed is answered with the whole reply
C22_FailSoftStore ==
    /\ [](redis # "up"
          => /\ \A k \in Keys :
                    /\ r_get(k, None) = None
                    /\ r_get(k, Some(0)) = Some(0)
                    /\ r_smembers(k) = {}
                    /\ r_set(k, json_dumps(<<>>)) = db
                    /\ r_sadd(k, "a") = db
                    /\ r_delete(k) = db
                    /\ r_incrby(k, 1) = db
             /\ \A u \in Users :
                    /\ get_user_model(u) = FALLBACK_MODEL
                    /\ get_active_chat_name(u) = DEFAULT_CHAT_NAME
                    /\ get_history(u) = <<>>)
    /\ [](\A u \in Users :
            (redis = "up"
             /\ db[K_history(u, get_active_chat_name(u))] = Some(Malformed))
            => get_history(u) = <<>>)
    /\ [](\A p \in Procs :
            LET t == task[p] IN
            (/\ t.op = "message" /\ t.pc = "done"
             /\ Count(t, "model:stream") = 1 /\ t.raised = ""
             /\ ~IsBlank(t.buf)
             /\ \A i \in 1..Len(t.out) : t.out[i].res \in {"ok", "any"})
            => /\ FinalText(t) = t.buf
               /\ t.outcome = "finalized")
    /\ [][\A p \in Procs :
            LET t == task[p]
                n == task'[p]
            IN  (redis # "up" /\ n # t /\ t.pc \notin {"idle", "done"})
                => /\ db' = db
                   /\ appended' = appended
                   /\ t.pc \in {"hm_model", "wh_model"}
                      => n.model_name = FALLBACK_MODEL
                   /\ t.pc \in {"hm_hist_active", "uh_hist_active"}
                      => n.gh_active = DEFAULT_CHAT_NAME
                   /\ t.pc \in {"uh_active", "cl_active"}
                      => n.active = DEFAULT_CHAT_NAME
                   /\ t.pc \in {"hm_hist_read", "uh_hist_read", "wh_hist"}
                      => n.hist = <<>>
                   /\ (t.pc \in {"us_daily", "us_monthly"}
                       /\ n.reported # t.reported)
                      => n.reported[Len(n.reported)] = 0]_vars

\* C22 witness: with the store down and an image model stored for the
\* user, a text message was handled as one to the fallback model, found
\* no history, was answered in full, and its history write changed nothing
C22_Witness ==
    \E p \in Procs :
        LET t == task[p] IN
        /\ redis = "down"
        /\ t.op = "message" /\ t.pc = "done"
        /\ db = t.pre
        /\ db[K_model(t.user)] = Some("gemini-2.5-flash-image-preview")
        /\ db[K_active(t.user)] = Some("a")
        /\ t.model_name = FALLBACK_MODEL
        /\ t.hist = <<>>
        /\ t.outcome = "finalized"
        /\ FinalText(t) = Hello
        /\ Count(t, "set:history") = 1

\* the positions of the task's calls to the model
ModelCalls(t) ==
    {i \in 1..Len(t.calls) :
        t.calls[i] \in {"model:stream", "model:generate", "model:chat"}}

\* C23: in a message interaction every history write comes after the call
\* to the model, which has returned (it did not raise, and a stream was
\* read to its end), and a call to a chat session of the model comes after
\* the history read that supplied the session's turns
C23_ReadCallAppend ==
    \A p \in Procs :
        LET t == task[p] IN
        t.op \in {"message", "wh_message"}
        => /\ \A i \in 1..Len(t.calls) :
                /\ t.calls[i] = "set:history"
                   => /\ \E j \in ModelCalls(t) : j < i
                      /\ t.raised = ""
                      /\ t.stream = <<>>
                /\ t.calls[i] \in {"model:stream", "model:chat"}
                   => \E k \in 1..(i - 1) : t.calls[k] = "get:history"
           /\ Cardinality(ModelCalls(t)) <= 1

\* C23 witness: a text message read the history, called the model, read
\* the history again in update_history and wrote it
C23_Witness ==
    \E p \in Procs :
        LET t == task[p] IN
        /\ t.op = "message" /\ t.outcome = "finalized"
        /\ \E i, j, k \in 1..Len(t.calls) :
                /\ i < j /\ j < k
                /\ t.calls[i] = "get:history"
                /\ t.calls[j] = "model:stream"
                /\ t.calls[k] = "set:history"

\* C24: a history write replaces the blob by what its handler read
\* earlier plus the handler's own pair, whatever has been written to the
\* blob since that read: nothing makes the read and the write one step,
\* and the last writer wins
C24_LastWriterWins ==
    [][\A p \in Procs :
        LET t == task[p]
            n == task'[p]
        IN  /\ (t.pc = "uh_set" /\ n.pc = "done")
               => db'[K_history(t.user, t.active)]
                    = Some(json_dumps(Truncate(
                            AppendPair(t.hist, t.uh_user, t.uh_model))))
            /\ (t.pc = "wh_update" /\ n.pc = "wh_inspect")
               => db'[K_wh_history(t.user)]
                    = Some(json_dumps(history_to_save(
                            chat_history(t.hist, t.msg, t.response))))]_vars

\* C24 witness: two messages of one user in the same chat were both
\* answered and both wrote the history, four turns were appended and the
\* stored history holds the earlier exchange and one pair only
C24_Witness ==
    /\ \A p \in Procs :
            /\ task[p].op = "message" /\ task[p].pc = "done"
            /\ task[p].outcome = "finalized"
            /\ task[p].active = task[1].active
    /\ LET k == K_history(task[1].user, task[1].active) IN
        /\ Len(appended[k]) = Len(OneExchange) + 4
        /\ Stored(db, k) = OneExchange \o AppendPair(<<>>, Hi, Hello)

\* the same for two messages to the webhook variant
C24_WebhookWitness ==
    /\ \A p \in Procs :
            /\ task[p].op = "wh_message" /\ task[p].pc = "done"
            /\ task[p].outcome = "replied"
    /\ LET k == K_wh_history(task[1].user) IN
        /\ Len(appended[k]) = 4
        /\ Stored(db, k) = AppendPair(<<>>, Hi, Hello)

\* C25: a live edit carries the buffer as it was after one of the chunks
\* consumed, plus the typing marker; that buffer was shorter than one
\* outbound message and the edit is no longer than one; so from the chunk
\* on that brings the buffer to the limit there are no edits.  The chunks
\* of the final text are sent after the last edit, the stream being
\* exhausted, and a finalized reply was delivered whole
C25_EditsFit ==
    \A p \in Procs :
        LET t == task[p] IN
        /\ \A i \in Outs(t, "edit") :
              /\ TLen(t.out[i].text) <= TELEGRAM_MAX_MESSAGE_LENGTH
              /\ \E k \in 1..Len(t.consumed) :
                    LET b == ConcatAll(SubSeq(t.consumed, 1, k)) IN
                    /\ t.out[i].text = TCat(b, TYPING_MARKER)
                    /\ TLen(b) < TELEGRAM_MAX_MESSAGE_LENGTH
              /\ \A j \in Outs(t, "final") : i < j
        /\ (t.op = "message" /\ Outs(t, "final") # {}) => t.stream = <<>>
        /\ t.outcome = "finalized" => FinalText(t) = t.buf

\* C25 witness: the placeholder was edited once, with 4085 characters and
\* the marker; the next chunks took the buffer past the limit without an
\* edit, and the reply was delivered at finalization
C25_Witness ==
    \E p \in Procs :
        LET t == task[p] IN
        /\ t.outcome = "finalized"
        /\ Len(t.consumed) = 3
        /\ TLen(t.buf) > TELEGRAM_MAX_MESSAGE_LENGTH
        /\ Cardinality(Outs(t, "edit")) = 1
        /\ \A i \in Outs(t, "edit") :
              /\ t.out[i].res = "ok"
              /\ TLen(t.out[i].text)
                    = TELEGRAM_MAX_MESSAGE_LENGTH - EDIT_MARGIN - 1
                      + TLen(TYPING_MARKER)
        /\ FinalText(t) = t.buf

\* C26: the chunks send_long_message sends of a text are its slices of
\* TELEGRAM_MAX_MESSAGE_LENGTH characters, in order: none is empty or
\* longer than that, every one followed by another has exactly that
\* length, and when all were delivered they add up to the text; a blank
\* text is not sent at all
C26_ChunksCoverText ==
    \A p \in Procs :
        LET t == task[p]
            finals == Outs(t, "final")
            before(i) == Cardinality({j \in finals : j < i})
        IN  /\ \A i \in finals :
                /\ t.out[i].text
                     = Chunk(t.slm_text,
                             before(i) * TELEGRAM_MAX_MESSAGE_LENGTH)
                /\ TLen(t.out[i].text) \in 1..TELEGRAM_MAX_MESSAGE_LENGTH
                /\ (\E j \in finals : j > i)
                   => TLen(t.out[i].text) = TELEGRAM_MAX_MESSAGE_LENGTH
            /\ IsBlank(t.slm_text) => finals = {}
            /\ (t.outcome \in {"finalized", "replied"}
                /\ ~IsBlank(t.slm_text))
               => FinalText(t) = t.slm_text

\* C26 witness: a text of 4085 + 4096 + 4096 characters went out as chunks
\* of 4096, 4096 and 4085 characters
C26_Witness ==
    \E p \in Procs :
        LET t == task[p] IN
        /\ t.outcome = "finalized"
        /\ TLen(t.slm_text) = 3 * TELEGRAM_MAX_MESSAGE_LENGTH - EDIT_MARGIN - 1
        /\ Cardinality(Outs(t, "final")) = 3
        /\ \E i \in Outs(t, "final") :
              /\ TLen(t.out[i].text)
                    = TELEGRAM_MAX_MESSAGE_LENGTH - EDIT_MARGIN - 1
              /\ \A j \in Outs(t, "final") : j <= i
        /\ FinalText(t) = t.buf

\* the webhook variant was given a blank text and sent nothing
C26_BlankWitness ==
    \E p \in Procs :
        LET t == task[p] IN
        /\ t.op = "wh_message" /\ t.outcome = "replied"
        /\ t.slm_text = Str(<<" ", " ">>)
        /\ Outs(t, "final") = {}

\* C27: from the moment an update of a user is dispatched, whatever its
\* handler does and however it ends, every key of every other user holds
\* what it held at dispatch (the updates being handled one at a time)
C27_OtherUsersUntouched ==
    \A p \in Procs :
        LET t == task[p] IN
        t.pc # "idle"
        => \A k \in Keys : k[2] # t.user => db[k] = t.pre[k]

\* C27 witness: user 2 was answered and got a history of their own, while
\* the model choice, active chat, saved set, histories and counters of
\* user 1 are in the store as before
C27_Witness ==
    \E p \in Procs :
        LET t == task[p] IN
        /\ t.pc = "done" /\ t.user = 2 /\ t.op = "message"
        /\ t.outcome = "finalized"
        /\ db[K_history(2, DEFAULT_CHAT_NAME)].some
        /\ ~t.pre[K_history(2, DEFAULT_CHAT_NAME)].some
        /\ \A k \in {K_model(1), K_active(1), K_chats(1), K_history(1, "a"),
                      K_history(1, DEFAULT_CHAT_NAME), K_daily(1),
                      K_monthly(1)} :
              db[k].some /\ db[k] = t.pre[k]

\* a failed interaction of user 2: the model call raised
C27_FailureWitness ==
    \E p \in Procs :
        LET t == task[p] IN
        /\ t.pc = "done" /\ t.user = 2 /\ t.raised = "call"
        /\ db = t.pre /\ db[K_history(1, "a")].some

\* the positions of the outbound calls that end a delivery
TerminalOuts(t) ==
    Outs(t, "final") \cup Outs(t, "no_content") \cup Outs(t, "error")

\* C28: a streamed delivery consumes chunks only after its placeholder
\* was created; once started it ends, and it has ended in exactly one
\* way: the final text sent and the pair stored, or the no-content notice,
\* or the error notice; no live edit comes after a final chunk or a
\* notice, and a handler that has ended does nothing more
C28_DeliveryTerminates ==
    /\ [](\A p \in Procs :
            LET t == task[p]
                finals == Outs(t, "final")
            IN  /\ t.consumed # <<>>
                   => \E i \in Outs(t, "placeholder") :
                        /\ t.out[i].res = "ok"
                        /\ \A j \in Outs(t, "edit") \cup TerminalOuts(t) :
                                i < j
                /\ \A i \in Outs(t, "edit"), j \in TerminalOuts(t) : i < j
                /\ (t.pc = "done" /\ Count(t, "model:stream") = 1)
                   => \/ /\ t.outcome = "finalized"
                         /\ finals # {}
                         /\ \A i \in finals : t.out[i].res = "ok"
                         /\ Outs(t, "no_content") \cup Outs(t, "error") = {}
                         /\ Count(t, "set:history") = 1
                      \/ /\ t.outcome = "no_content"
                         /\ \E i \in Outs(t, "no_content") :
                                t.out[i].res = "ok"
                         /\ finals \cup Outs(t, "error") = {}
                         /\ Count(t, "set:history") = 0
                      \/ /\ t.outcome \in {"failed", "error_notice", "crashed"}
                         /\ Outs(t, "error") # {}
                         /\ Count(t, "set:history") = 0)
    /\ [][\A p \in Procs :
            (task[p].pc = "done" /\ task'[p] # task[p])
            => /\ budget' = budget - 1
               /\ task'[p].calls = <<>>]_vars
    /\ \A p \in Procs :
            (task[p].pc = "st_placeholder") ~> (task[p].pc = "done")

\* C28 witness: a delivery that edited its placeholder, sent the final
\* text and stored the pair
C28_Witness ==
    \E p \in Procs :
        LET t == task[p] IN
        /\ t.pc = "done" /\ t.outcome = "finalized"
        /\ Len(t.consumed) = 2
        /\ \E i \in Outs(t, "placeholder"), j \in Outs(t, "edit"),
               k \in Outs(t, "final") :
                i < j /\ j < k /\ t.out[j].res = "ok"
        /\ Count(t, "set:history") = 1

\* C29: of two live edits of a delivery the later one is longer, so no
\* edit repeats the content of an earlier one, rendered or not; and there
\* are no more edits than chunks with text: a chunk without text brings
\* no edit
C29_EditsGrow ==
    \A p \in Procs :
        LET t == task[p]
            edits == Outs(t, "edit")
        IN  /\ \A i, j \in edits :
                i < j => /\ TLen(t.out[i].text) < TLen(t.out[j].text)
                         /\ t.out[i].text # t.out[j].text
            /\ Cardinality(edits)
                 <= Cardinality({k \in 1..Len(t.consumed) :
                                    t.consumed[k] # <<>>})

\* C29 witness: a chunk "b", a chunk without text and another "b" were
\* consumed; the placeholder was edited to "b" and to "bb", with the marker
C29_Witness ==
    \E p \in Procs :
        LET t == task[p] IN
        /\ t.consumed = << <<Run("b", 1)>>, <<>>, <<Run("b", 1)>> >>
        /\ \E i, j \in Outs(t, "edit") :
              /\ i < j
              /\ t.out[i] = Msg("edit", TCat(<<Run("b", 1)>>, TYPING_MARKER), "ok")
              /\ t.out[j] = Msg("edit", TCat(<<Run("b", 2)>>, TYPING_MARKER), "ok")
        /\ Cardinality(Outs(t, "edit")) = 2

\* C30: /load_chat of an allowed user changes no key but the user's
\* active chat; it sets that to the name given, and only when the name is
\* the default name or was in the user's saved set when the handler read
\* the set; with no name, or a name that is neither, the store stays as
\* it was
C30_LoadChatSetsKnownName ==
    \A p \in Procs :
        LET t == task[p]
            known == \/ t.chat_name = DEFAULT_CHAT_NAME
                     \/ t.chat_name \in t.all_chats
        IN  (t.op = "load_chat" /\ t.user \in ALLOWED_USER_IDS)
            => /\ SameExcept(t.pre, {K_active(t.user)})
               /\ t.all_chats \in {{}, IF t.pre[K_chats(t.user)].some
                                          THEN t.pre[K_chats(t.user)].val
                                          ELSE {}}
               /\ db[K_active(t.user)] # t.pre[K_active(t.user)]
                  => /\ db[K_active(t.user)] = Some(t.chat_name)
                     /\ t.chat_name # ""
                     /\ known
               /\ (t.pc = "done" /\ (t.chat_name = "" \/ ~known))
                  => /\ db = t.pre
                     /\ t.outcome = "rejected"

\* C30 witness: the saved chat "a" was loaded over another active chat;
\* the histories and the saved set are as before
C30_Witness ==
    \E p \in Procs :
        LET t == task[p] IN
        /\ t.op = "load_chat" /\ t.pc = "done" /\ t.outcome = "loaded"
        /\ t.chat_name = "a"
        /\ t.pre[K_chats(t.user)] = Some({"a"})
        /\ t.pre[K_active(t.user)] = Some(DEFAULT_CHAT_NAME)
        /\ db[K_active(t.user)] = Some("a")
        /\ db[K_history(t.user, "a")].some
        /\ SameHistories(t.pre)

\* the chat an operation of main.py is aimed at: the chat that was active
\* when the update was dispatched for a message and for clear, the default
\* chat for new_chat, the name given for save_chat
TargetChat(t) ==
    IF t.op = "new_chat" THEN DEFAULT_CHAT_NAME
    ELSE IF t.op = "save_chat" THEN t.chat_name
    ELSE ActiveIn(t.pre, t.user)

\* C31: a message, a clear, a new_chat or a save_chat of an allowed user
\* leaves the history blob of every chat name other than the one it is
\* aimed at as it was when the update was dispatched, for this user and
\* for every other; so a message sent after the chat was saved under a
\* name changes the blob under that name only, and the blob the copy was
\* taken from keeps its content
C31_OtherChatsUntouched ==
    \A p \in Procs :
        LET t == task[p] IN
        (/\ t.op \in {"message", "clear", "new_chat", "save_chat"}
         /\ t.user \in ALLOWED_USER_IDS)
        => /\ \A c \in ChatNames \ {TargetChat(t)} :
                db[K_history(t.user, c)] = t.pre[K_history(t.user, c)]
           /\ \A u \in Users \ {t.user}, c \in ChatNames :
                db[K_history(u, c)] = t.pre[K_history(u, c)]
           /\ (t.pc = "done" /\ t.outcome = "saved")
              => /\ db[K_history(t.user, t.chat_name)]
                        = t.pre[K_history(t.user, ActiveIn(t.pre, t.user))]
                 /\ db[K_history(t.user, ActiveIn(t.pre, t.user))]
                        = t.pre[K_history(t.user, ActiveIn(t.pre, t.user))]

\* C31 witness: the default chat was saved as "a", and a message answered
\* afterwards was appended to "a" while the default chat kept the
\* exchange it had when the copy was taken
C31_Witness ==
    \E p \in Procs :
        LET t == task[p] IN
        /\ t.op = "message" /\ t.pc = "done" /\ t.outcome = "finalized"
        /\ ActiveIn(t.pre, t.user) = "a"
        /\ t.pre[K_history(t.user, "a")].some
        /\ t.pre[K_history(t.user, "a")]
                = t.pre[K_history(t.user, DEFAULT_CHAT_NAME)]
        /\ Len(Stored(db, K_history(t.user, "a")))
                = Len(Stored(t.pre, K_history(t.user, "a"))) + 2
        /\ db[K_history(t.user, DEFAULT_CHAT_NAME)]
                = t.pre[K_history(t.user, DEFAULT_CHAT_NAME)]

\* C32: when update_history of a streamed reply has read the active chat
\* name, the name under which it will write, that name is the chat whose
\* history handle_message read and gave to the model
C32_AppendsToChatRead ==
    \A p \in Procs :
        LET t == task[p] IN
        (/\ t.op = "message"
         /\ t.model_name \notin IMAGE_GEN_MODELS
         /\ t.pc = "uh_hist_active")
        => t.active = t.gh_active

\* C33: when update_history is about to write, the turns it read and
\* will write back with the new pair were read from the chat under whose
\* name it will write: the name get_history read is the name
\* update_history read
C33_WritesBackSameChat ==
    \A p \in Procs :
        LET t == task[p] IN
        t.pc = "uh_set" => t.gh_active = t.active

\* the turns h are whole pairs: a user turn, then a model turn, and so on
Aligned(h) ==
    /\ Len(h) % 2 = 0
    /\ \A i \in 1..Len(h) :
            h[i].role = IF i % 2 = 1 THEN "user" ELSE "model"

\* C34: every blob stored under a history key of main.py parses, has an
\* even number of turns that alternate user turn, model turn from a user
\* turn on, and at most HISTORY_LIMIT of them; the turns dropped from the
\* front of what was appended to the chat are whole pairs
C34_PairsStayWhole ==
    \A u \in Users, c \in ChatNames :
        LET k == K_history(u, c)
            h == Stored(db, k)
        IN  db[k].some
            => /\ db[k].val.json
               /\ Aligned(h)
               /\ Len(h) <= HISTORY_LIMIT
               /\ Aligned(appended[k])
               /\ IsSuffix(h, appended[k])
               /\ (Len(appended[k]) - Len(h)) % 2 = 0

\* C34 witness: a pair was appended to a chat that held HISTORY_LIMIT
\* turns; the oldest pair was dropped, and the stored turns begin with the
\* user turn of the second pair
C34_Witness ==
    \E c \in ChatNames :
        LET k == K_history(1, c)
            h == Stored(db, k)
        IN  /\ Len(appended[k]) = HISTORY_LIMIT + 2
            /\ Len(h) = HISTORY_LIMIT
            /\ h[1] = appended[k][3]
            /\ h[1].role = "user"
            /\ h[HISTORY_LIMIT].role = "model"

\* C35: when no handler is under way, every history blob of main.py
\* that exists is stored under the default name or under a name of the
\* user's saved-chat set
C35_NoOrphanHistory ==
    Quiet
    => \A u \in Users, c \in ChatNames \ {DEFAULT_CHAT_NAME} :
            db[K_history(u, c)].some
            => (db[K_chats(u)].some /\ c \in db[K_chats(u)].val)

====
